---------------------------- MODULE Spec2Model ----------------------------
(***************************************************************************)
(* A model of the rl-swarm coordination code: the key-space helpers of     *)
(* hivemind_exp/dht_utils.py, the merge engine of                          *)
(* hivemind_exp/gsm8k/stage_utils.py, the round/stage driver of            *)
(* hivemind_exp/trainer/hivemind_grpo_trainer.py, its testnet variant in   *)
(* hivemind_exp/trainer/gensyn/testnet_grpo_trainer.py and the health      *)
(* endpoint of web/api/server.py.                                          *)
(*                                                                         *)
(* A Python dict is modelled as a sequence of <<key, value>> pairs with    *)
(* distinct keys, in insertion order.  A string key is modelled by its     *)
(* length and an identifier telling strings of one length apart.           *)
(***************************************************************************)
EXTENDS Integers, Sequences, FiniteSets, TLC

(***************************************************************************)
(* State.                                                                  *)
(***************************************************************************)
\* hash_keys: the map given, the results of one and of two applications.
VARIABLES hk_in, hk_out, hk_out2, hk_pc

\* The health endpoint: the clock, the cache's last_polled and data, the
\* poller thread, the last health response, the time of the last poll that
\* completed.
VARIABLES now, last_polled, cache_data, poller_pc, health, poll_done

\* One merged_prev_stage_datasets call: its inputs and results.
VARIABLES mg_rewards, mg_cache, mg_store, mg_limit, mg_score, mg_result,
          mg_winners, mg_pc

\* The store: the round/stage pointer, the reward records, the output
\* records and the leaderboard records.
VARIABLES dht_pointer, dht_rewards, dht_outputs, dht_leaderboard

\* Every node's process: its HivemindNode fields, its trainer and the
\* position of its train() call.
VARIABLES proc

\* What every trainer is built with: the stage data (max_rounds and the
\* number of stages) and the training steps of one stage (config.max_steps).
VARIABLES stage_data, max_steps

\* Faults still to be injected; what the runs did so far (history only).
VARIABLES faults, hist

\* The external ledger of the testnet variant (SwarmCoordinator): the round
\* and stage it reports and the winners submitted to it.
VARIABLES ledger

hashVars == <<hk_in, hk_out, hk_out2, hk_pc>>

healthVars == <<now, last_polled, cache_data, poller_pc, health, poll_done>>

mergeVars == <<mg_rewards, mg_cache, mg_store, mg_limit, mg_score, mg_result,
               mg_winners, mg_pc>>

storeVars == <<dht_pointer, dht_rewards, dht_outputs, dht_leaderboard>>

trainVars == <<storeVars, stage_data, max_steps, proc, faults, hist, ledger>>

vars == <<hashVars, healthVars, mergeVars, trainVars>>

(***************************************************************************)
(* Bounds of the model.                                                    *)
(***************************************************************************)
MaxDictLen == 2      \* entries of an output map given to hash_keys
NumRawIds == 2       \* distinct raw strings per raw length
MaxTime == 8         \* minutes the health model's clock runs
NumPayloads == 2     \* distinct payloads of an output-map entry
NumMergeNodes == 3   \* nodes of the merge model, the caller included
MaxLimit == 2        \* largest dht_sample_limit and winners limit tried
MaxRounds == 3       \* largest stage_data.max_rounds
MaxStages == 3       \* largest len(stage_data.stages)
MaxSteps == 2        \* largest config.max_steps
MaxRunSteps == 6     \* largest max_rounds * len(stage_data.stages) * max_steps
MaxFaults == 1       \* exceptions and timeouts injected in one behaviour
MaxLiveRunSteps == 3        \* engine steps of one node in a run of SpecLive
MaxTestnetRunSteps == 12  \* largest rounds * stages * steps * faults, one node

(***************************************************************************)
(* Python dict helpers.                                                    *)
(***************************************************************************)
\* None is the empty tuple and a present value v is <<v>>; an empty dict is
\* as false as None, as in Python.
None == << >>

Some(v) == <<v>>

TheValue(o) == o[1]

EmptyDict == << >>

DictKeys(d) == { d[i][1] : i \in 1..Len(d) }

\* A record of the store, subkey -> value, is kept in ascending subkey order.
RecordSet(d, k, v) ==
    LET ks == { d[i][1] : i \in 1..Len(d) } \cup {k}
        val(x) == IF x = k THEN v ELSE d[CHOOSE i \in 1..Len(d) : d[i][1] = x][2]
        RECURSIVE build(_)
        build(rest) ==
            IF rest = {} THEN << >>
            ELSE LET m == CHOOSE x \in rest : \A y \in rest : x <= y
                 IN <<<<m, val(m)>>>> \o build(rest \ {m})
    IN build(ks)

DictHas(d, k) == \E i \in 1..Len(d) : d[i][1] = k

DictGet(d, k) == d[CHOOSE i \in 1..Len(d) : d[i][1] = k][2]

\* d[k] = v: overwrite in place when k is a key, append otherwise.
DictSet(d, k, v) ==
    IF DictHas(d, k)
    THEN [i \in 1..Len(d) |-> IF d[i][1] = k THEN <<k, v>> ELSE d[i]]
    ELSE Append(d, <<k, v>>)

IsDict(d) == \A i, j \in 1..Len(d) : d[i][1] = d[j][1] => i = j

(***************************************************************************)
(* Strings used as subkeys, and hashlib.md5(k.encode()).hexdigest().       *)
(* A digest is a string of HashWidth characters; distinct raw strings have *)
(* distinct digests (md5 is taken to be collision-free on the universe).   *)
(***************************************************************************)
HashWidth == 32

RawLens == {5, 40}

RawKeys == [len : RawLens, id : 0..(NumRawIds - 1)]

NumDigests == 2 * NumRawIds + 1

\* Strings of length 32: the digests of the raw keys and one more.
WideKeys == [len : {HashWidth}, id : 0..(NumDigests - 1)]

AllKeys == RawKeys \cup WideKeys

md5_hexdigest(k) ==
    [len |-> HashWidth,
     id  |-> IF k.len = HashWidth THEN (k.id + 1) % NumDigests
             ELSE IF k.len = 5 THEN k.id
             ELSE NumRawIds + k.id]

hash_keys_always(outputs) ==
    LET RECURSIVE go(_, _)
        go(i, result) ==
            IF i > Len(outputs) THEN result
            ELSE go(i + 1, DictSet(result, md5_hexdigest(outputs[i][1]), outputs[i][2]))
    IN go(1, EmptyDict)

hash_keys(outputs) ==
    LET RECURSIVE go(_, _)
        go(i, result) ==
            IF i > Len(outputs) THEN result
            ELSE LET k == outputs[i][1]
                     v == outputs[i][2]
                     hk == IF k.len # HashWidth THEN md5_hexdigest(k) ELSE k
                 IN go(i + 1, DictSet(result, hk, v))
    IN go(1, EmptyDict)


(***************************************************************************)
(* hash_keys applied to an output map, and applied again to its result.    *)
(***************************************************************************)
Payloads == 1..NumPayloads

SeqsUpTo(S, n) == UNION { [1..m -> S] : m \in 0..n }

\* The output maps of at most MaxDictLen entries.
OutputMaps == { d \in SeqsUpTo(AllKeys \X Payloads, MaxDictLen) : IsDict(d) }

HashOnce ==
    /\ hk_pc = "start"
    /\ hk_out' = hash_keys(hk_in)
    /\ hk_pc' = "once"
    /\ UNCHANGED <<hk_in, hk_out2, healthVars, mergeVars, trainVars>>

HashTwice ==
    /\ hk_pc = "once"
    /\ hk_out2' = hash_keys(hk_out)
    /\ hk_pc' = "twice"
    /\ UNCHANGED <<hk_in, hk_out, healthVars, mergeVars, trainVars>>

(***************************************************************************)
(* The health endpoint of web/api/server.py and the poller that feeds the  *)
(* cache.  The clock counts minutes.  The cache class (server_cache.Cache) *)
(* is outside the sources: poll_dht replaces the cached data and records   *)
(* the time of the pass as last_polled, get_last_polled returns it.        *)
(***************************************************************************)
\* timedelta(minutes=5)
StaleMinutes == 5

Tick ==
    /\ poller_pc # "idle"
    /\ now < MaxTime
    /\ now' = now + 1
    /\ UNCHANGED <<last_polled, cache_data, poller_pc, health, poll_done>>
    /\ UNCHANGED <<hashVars, mergeVars, trainVars>>

\* Cache.poll_dht returning: the data read from the store carries timestamps
\* of any age up to now.
poll_dht(stamp) ==
    /\ cache_data' = Some(stamp)
    /\ last_polled' = Some(now)

Cache_get_last_polled == last_polled

\* populate_cache: one pass of the loop whose poll_dht call returns.
PollOk ==
    /\ poller_pc = "poll"
    /\ \E stamp \in 0..now : poll_dht(stamp)
    /\ poll_done' = Some(now)
    /\ poller_pc' = "sleep"
    /\ UNCHANGED <<now, health, hashVars, mergeVars, trainVars>>

\* populate_cache: time.sleep(10) is over, the loop goes round.
PollSleep ==
    /\ poller_pc = "sleep"
    /\ poller_pc' = "poll"
    /\ UNCHANGED <<now, last_polled, cache_data, health, poll_done>>
    /\ UNCHANGED <<hashVars, mergeVars, trainVars>>

\* The except clause inside the loop: a failed pass is followed by the sleep.
PollFail_inside_loop ==
    /\ poller_pc = "poll"
    /\ poller_pc' = "sleep"
    /\ UNCHANGED <<now, last_polled, cache_data, health, poll_done>>
    /\ UNCHANGED <<hashVars, mergeVars, trainVars>>

\* populate_cache: poll_dht raises; the except clause logs and the thread ends.
PollFail ==
    /\ poller_pc = "poll"
    /\ poller_pc' = "dead"
    /\ UNCHANGED <<now, last_polled, cache_data, health, poll_done>>
    /\ UNCHANGED <<hashVars, mergeVars, trainVars>>

get_health_no_bound(lpt, t) ==
    IF lpt = None THEN "error" ELSE "OK"

get_health(lpt, t) ==
    IF lpt = None THEN "error"
    ELSE IF t - TheValue(lpt) > StaleMinutes THEN "error"
    ELSE "OK"

\* One request to /api/healthz; the response is kept with the time it was
\* made and the time of the last completed poll at that moment.
GetHealth ==
    /\ poller_pc # "idle"
    /\ health' = Some([status |-> get_health(Cache_get_last_polled, now),
                       at |-> now, polled |-> poll_done, data |-> cache_data])
    /\ UNCHANGED <<now, last_polled, cache_data, poller_pc, poll_done>>
    /\ UNCHANGED <<hashVars, mergeVars, trainVars>>

(***************************************************************************)
(* get_outputs and merged_prev_stage_datasets.                             *)
(*                                                                         *)
(* get_outputs is wrapped in functools.lru_cache: memo is the cache entry  *)
(* of the call's arguments, None when the call was never answered.  A      *)
(* result of None stands for the ValueError "could not retrieve".          *)
(***************************************************************************)
get_outputs_unmemoised(memo, cached, stored) ==
    IF cached # EmptyDict THEN Some(hash_keys(cached))
    ELSE IF stored # EmptyDict THEN Some(hash_keys(stored))
    ELSE None

\* get_outputs that looks into the cache before its memo.
get_outputs_cache_first(memo, cached, stored) ==
    IF cached # EmptyDict THEN Some(hash_keys(cached))
    ELSE IF memo # None THEN memo
    ELSE IF stored # EmptyDict THEN Some(hash_keys(stored))
    ELSE None

get_outputs(memo, cached, stored) ==
    IF memo # None THEN memo
    ELSE IF cached # EmptyDict THEN Some(hash_keys(cached))
    ELSE IF stored # EmptyDict THEN Some(hash_keys(stored))
    ELSE None

\* The loop stops at dht_sample_limit items instead of one past it.
collect_peers_hard_cap(self, node_keys, peer, limit, start) ==
    LET RECURSIVE take(_, _, _, _)
        take(res, j, taken, count) ==
            IF j > Len(res) \/ count >= limit THEN [taken |-> taken, count |-> count]
            ELSE take(res, j + 1, Append(taken, res[j]), count + 1)
        RECURSIVE go(_, _)
        go(i, st) ==
            IF i > Len(node_keys) THEN st
            ELSE IF st.count >= limit THEN st
            ELSE LET node_key == node_keys[i] IN
                 IF node_key = self THEN go(i + 1, st)
                 ELSE LET res == peer[node_key]
                          fetched == Append(st.fetched, node_key)
                      IN IF res = None
                         THEN go(i + 1, [st EXCEPT !.fetched = fetched])
                         ELSE LET t == take(TheValue(res), 1, << >>, st.count)
                              IN go(i + 1,
                                    [items |-> IF t.taken = << >> THEN st.items
                                               ELSE DictSet(st.items, node_key, t.taken),
                                     count |-> t.count,
                                     fetched |-> fetched])
    IN go(1, start)

\* The loop over the reward record's keys: peers' items are added until the
\* running count exceeds dht_sample_limit.  st.items is prev_items, st.count
\* is dht_sample_count, st.fetched lists the peers get_outputs was called for.
collect_peers(self, node_keys, peer, limit, start) ==
    LET RECURSIVE take(_, _, _, _)
        \* for item in prev_node_outputs.items(): append, count, break
        take(res, j, taken, count) ==
            IF j > Len(res) THEN [taken |-> taken, count |-> count]
            ELSE IF count + 1 > limit
                 THEN [taken |-> Append(taken, res[j]), count |-> count + 1]
                 ELSE take(res, j + 1, Append(taken, res[j]), count + 1)
        RECURSIVE go(_, _)
        go(i, st) ==
            IF i > Len(node_keys) THEN st
            ELSE IF st.count > limit THEN st
            ELSE LET node_key == node_keys[i] IN
                 IF node_key = self THEN go(i + 1, st)
                 ELSE LET res == peer[node_key]
                          fetched == Append(st.fetched, node_key)
                      IN IF res = None
                         THEN go(i + 1, [st EXCEPT !.fetched = fetched])
                         ELSE LET t == take(TheValue(res), 1, << >>, st.count)
                              IN go(i + 1,
                                    [items |-> IF t.taken = << >> THEN st.items
                                               ELSE DictSet(st.items, node_key, t.taken),
                                     count |-> t.count,
                                     fetched |-> fetched])
    IN go(1, start)

\* q_to_keyed_items: for every collected item, [q_hash][node_key] = outputs.
group_by_question_overwrite(prev_items) ==
    LET RECURSIVE inner(_, _, _, _)
        inner(node_key, items, j, groups) ==
            IF j > Len(items) THEN groups
            ELSE inner(node_key, items, j + 1,
                       DictSet(groups, items[j][1], <<<<node_key, items[j][2]>>>>))
        RECURSIVE outer(_, _)
        outer(i, groups) ==
            IF i > Len(prev_items) THEN groups
            ELSE outer(i + 1, inner(prev_items[i][1], prev_items[i][2], 1, groups))
    IN outer(1, EmptyDict)

group_by_question(prev_items) ==
    LET RECURSIVE inner(_, _, _, _)
        inner(node_key, items, j, groups) ==
            IF j > Len(items) THEN groups
            ELSE LET q_hash == items[j][1]
                     old == IF DictHas(groups, q_hash) THEN DictGet(groups, q_hash)
                            ELSE EmptyDict
                 IN inner(node_key, items, j + 1,
                          DictSet(groups, q_hash, DictSet(old, node_key, items[j][2])))
        RECURSIVE outer(_, _)
        outer(i, groups) ==
            IF i > Len(prev_items) THEN groups
            ELSE outer(i + 1, inner(prev_items[i][1], prev_items[i][2], 1, groups))
    IN outer(1, EmptyDict)

\* The local samples are added only when the reward record was read.
merged_prev_stage_datasets_gated(self, prev_rewards, own, peer, limit) ==
    LET seeded == IF own = None \/ prev_rewards = EmptyDict THEN EmptyDict
                  ELSE <<<<self, TheValue(own)>>>>
        start == [items |-> seeded, count |-> 0, fetched |-> << >>]
        st == IF prev_rewards # EmptyDict
              THEN collect_peers(self, [i \in 1..Len(prev_rewards) |-> prev_rewards[i][1]],
                                 peer, limit, start)
              ELSE start
        groups == group_by_question(st.items)
    IN [items |-> st.items, count |-> st.count, fetched |-> st.fetched,
        merge_qs |-> [i \in 1..Len(groups) |-> groups[i][1]],
        merge_calls |-> [i \in 1..Len(groups) |-> groups[i][2]],
        error |-> None]

\* The ValueError of get_outputs is not caught.
merged_prev_stage_datasets_strict(self, prev_rewards, own, peer, limit) ==
    LET seeded == IF own = None THEN EmptyDict
                  ELSE <<<<self, TheValue(own)>>>>
        start == [items |-> seeded, count |-> 0, fetched |-> << >>]
        st == IF prev_rewards # EmptyDict
              THEN collect_peers(self, [i \in 1..Len(prev_rewards) |-> prev_rewards[i][1]],
                                 peer, limit, start)
              ELSE start
        groups == group_by_question(st.items)
    IN [items |-> st.items, count |-> st.count, fetched |-> st.fetched,
        merge_qs |-> [i \in 1..Len(groups) |-> groups[i][1]],
        merge_calls |-> [i \in 1..Len(groups) |-> groups[i][2]],
        error |-> IF \/ own = None
                     \/ \E i \in 1..Len(st.fetched) : peer[st.fetched[i]] = None
                  THEN Some(<<"get_outputs", "ValueError">>) ELSE None]

\* merged_prev_stage_datasets up to the calls of merge_fn: own is the result
\* of get_outputs for the calling node, peer[k] that for node k.  The value
\* holds prev_items, the peer-item count, the peers fetched, the keys of
\* q_to_keyed_items, the list of maps merge_fn is called with, in order, and
\* the exception the collection lets escape: none, both get_outputs calls
\* sit in "try ... except ValueError".
merged_prev_stage_datasets(self, prev_rewards, own, peer, limit) ==
    LET seeded == IF own = None THEN EmptyDict
                  ELSE <<<<self, TheValue(own)>>>>
        start == [items |-> seeded, count |-> 0, fetched |-> << >>]
        st == IF prev_rewards # EmptyDict
              THEN collect_peers(self, [i \in 1..Len(prev_rewards) |-> prev_rewards[i][1]],
                                 peer, limit, start)
              ELSE start
        groups == group_by_question(st.items)
    IN [items |-> st.items, count |-> st.count, fetched |-> st.fetched,
        merge_qs |-> [i \in 1..Len(groups) |-> groups[i][1]],
        merge_calls |-> [i \in 1..Len(groups) |-> groups[i][2]],
        error |-> None]

(***************************************************************************)
(* sorted(..., reverse=True) as Python computes it: a stable sort, equal   *)
(* keys keep their order.                                                  *)
(***************************************************************************)
\* key=lambda t: (t[1], t[0]) on (node_key, reward) pairs.
leaderboard_key_less(a, b) == a[2] < b[2] \/ (a[2] = b[2] /\ a[1] < b[1])

leaderboard_sorted_ascending(items) ==
    LET RECURSIVE ins(_, _)
        ins(sorted, x) ==
            IF sorted = << >> THEN <<x>>
            ELSE IF leaderboard_key_less(x, Head(sorted)) THEN <<x>> \o sorted
            ELSE <<Head(sorted)>> \o ins(Tail(sorted), x)
        RECURSIVE go(_, _)
        go(i, sorted) == IF i > Len(items) THEN sorted ELSE go(i + 1, ins(sorted, items[i]))
    IN go(1, << >>)

leaderboard_sorted_by_reward_only(items) ==
    LET RECURSIVE ins(_, _)
        ins(sorted, x) ==
            IF sorted = << >> THEN <<x>>
            ELSE IF Head(sorted)[2] < x[2] THEN <<x>> \o sorted
            ELSE <<Head(sorted)>> \o ins(Tail(sorted), x)
        RECURSIVE go(_, _)
        go(i, sorted) == IF i > Len(items) THEN sorted ELSE go(i + 1, ins(sorted, items[i]))
    IN go(1, << >>)

\* sorted(curr_rewards.items(), key=lambda t: (t[1], t[0]), reverse=True)
leaderboard_sorted(items) ==
    LET RECURSIVE ins(_, _)
        ins(sorted, x) ==
            IF sorted = << >> THEN <<x>>
            ELSE IF leaderboard_key_less(Head(sorted), x) THEN <<x>> \o sorted
            ELSE <<Head(sorted)>> \o ins(Tail(sorted), x)
        RECURSIVE go(_, _)
        go(i, sorted) == IF i > Len(items) THEN sorted ELSE go(i + 1, ins(sorted, items[i]))
    IN go(1, << >>)

\* sorted(list(rewards.items()), key=lambda x: x[1], reverse=True)
winners_sorted(items) ==
    LET RECURSIVE ins(_, _)
        ins(sorted, x) ==
            IF sorted = << >> THEN <<x>>
            ELSE IF Head(sorted)[2] < x[2] THEN <<x>> \o sorted
            ELSE <<Head(sorted)>> \o ins(Tail(sorted), x)
        RECURSIVE go(_, _)
        go(i, sorted) == IF i > Len(items) THEN sorted ELSE go(i + 1, ins(sorted, items[i]))
    IN go(1, << >>)

\* The loop of round_winners over the merged final-stage outputs: score[k] is
\* sum(node.rewards) after the reward function ran on an output of node k.
winner_totals(final_stage_outputs, score) ==
    LET RECURSIVE inner(_, _, _)
        inner(outputs, j, rewards) ==
            IF j > Len(outputs) THEN rewards
            ELSE LET node_key == outputs[j][1]
                     old == IF DictHas(rewards, node_key) THEN DictGet(rewards, node_key)
                            ELSE 0
                 IN inner(outputs, j + 1, DictSet(rewards, node_key, old + score[node_key]))
        RECURSIVE outer(_, _)
        outer(i, rewards) ==
            IF i > Len(final_stage_outputs) THEN rewards
            ELSE outer(i + 1, inner(final_stage_outputs[i], 1, rewards))
    IN outer(1, EmptyDict)

\* Only the nodes that scored are ranked.
round_winners_scorers_only(final_stage_outputs, score, limit) ==
    LET rewards == winners_sorted(SelectSeq(winner_totals(final_stage_outputs, score),
                                            LAMBDA t : t[2] > 0))
        names == [i \in 1..Len(rewards) |-> rewards[i][1]]
    IN SubSeq(names, 1, IF limit < Len(names) THEN limit ELSE Len(names))

\* round_winners(limit) after its merged_prev_stage_datasets call returned
\* final_stage_outputs: [n for n, _ in rewards][:limit].
round_winners(final_stage_outputs, score, limit) ==
    LET rewards == winners_sorted(winner_totals(final_stage_outputs, score))
        names == [i \in 1..Len(rewards) |-> rewards[i][1]]
    IN SubSeq(names, 1, IF limit < Len(names) THEN limit ELSE Len(names))

(***************************************************************************)
(* One call of merged_prev_stage_datasets(r, s) and one of round_winners   *)
(* in a fresh process, on inputs drawn from bounded sets: the reward       *)
(* record the poll ended with (empty on timeout), the caller's cached      *)
(* outputs of stage s-1 and every node's output record of stage s-1.       *)
(***************************************************************************)
MergeNodes == 1..NumMergeNodes

\* The calling node.
MergeSelf == CHOOSE k \in MergeNodes : \A j \in MergeNodes : k <= j

\* The questions of the dataset, as the raw strings compute_loss is given.
Question(i) == [len |-> 5, id |-> i - 1]

\* An output payload: the node that produced it and the run it comes from.
PayloadOf(node, ver) == <<node, ver>>

\* The output records of a node over the questions, in dataset order.
OutputRecordsOf(node) ==
    { SelectSeq([i \in 1..NumRawIds |-> <<Question(i), PayloadOf(node, 1)>>],
                LAMBDA e : e[1] \in qs) : qs \in SUBSET { Question(i) : i \in 1..NumRawIds } }

\* The reward record's keys, in any order.
RewardRecords ==
    { [i \in 1..Len(ks) |-> <<ks[i], 1>>] :
        ks \in { q \in SeqsUpTo(MergeNodes, NumMergeNodes) :
                    \A i, j \in 1..Len(q) : q[i] = q[j] => i = j } }

MergePeers(store) == [k \in MergeNodes |-> get_outputs(None, EmptyDict, store[k])]

MergeOwn(cache, store) == get_outputs(None, cache, store[MergeSelf])

\* dht_sample_limit=200 unless the caller passes another.
dht_sample_limit == 200

\* The call returns samples_fn(merged_qs), unless the collection raised.
MergeCall ==
    /\ mg_pc = "start"
    /\ LET merged == merged_prev_stage_datasets(MergeSelf, mg_rewards,
                         MergeOwn(mg_cache, mg_store), MergePeers(mg_store), mg_limit)
       IN /\ mg_result' = Some(merged)
          /\ mg_pc' = IF merged.error = None THEN "merged" ELSE "raised"
    /\ UNCHANGED <<mg_rewards, mg_cache, mg_store, mg_limit, mg_score, mg_winners>>
    /\ UNCHANGED <<hashVars, healthVars, trainVars>>

\* merge_fn or samples_fn raises e, after the collection and the grouping.
MergeCallFail(e) ==
    /\ mg_pc = "start"
    /\ LET merged == merged_prev_stage_datasets(MergeSelf, mg_rewards,
                         MergeOwn(mg_cache, mg_store), MergePeers(mg_store), mg_limit)
       IN mg_result' = Some([merged EXCEPT !.error =
                                IF @ = None THEN Some(<<"merge_fn", e>>) ELSE @])
    /\ mg_pc' = "raised"
    /\ UNCHANGED <<mg_rewards, mg_cache, mg_store, mg_limit, mg_score, mg_winners>>
    /\ UNCHANGED <<hashVars, healthVars, trainVars>>

\* round_winners(limit): the merge is called with merge_fn the identity and
\* the default dht_sample_limit.
RoundWinnersCall ==
    /\ mg_pc = "start"
    /\ LET merged == merged_prev_stage_datasets(MergeSelf, mg_rewards,
                         MergeOwn(mg_cache, mg_store), MergePeers(mg_store),
                         dht_sample_limit)
       IN /\ mg_result' = Some(merged)
          /\ \E limit \in 0..MaxLimit :
               mg_winners' = Some([limit |-> limit,
                                   winners |-> round_winners(merged.merge_calls,
                                                             mg_score, limit)])
    /\ mg_pc' = "winners"
    /\ UNCHANGED <<mg_rewards, mg_cache, mg_store, mg_limit, mg_score>>
    /\ UNCHANGED <<hashVars, healthVars, trainVars>>

(***************************************************************************)
(* The round/stage driver.  The store is one map that applies the writes   *)
(* in the order they are issued and expires nothing.  Node 1 is created    *)
(* with HivemindNode.coordinator, node 2 is a follower.  HivemindNode      *)
(* (hivemind_utils.py) is outside the sources: its cache of stage outputs  *)
(* is a dict keyed by (round, stage) that put_stage_outputs fills,         *)
(* get_stage_outputs reads and clear_stage_cache empties.                  *)
(***************************************************************************)
Nodes == {1, 2}

is_coordinator(n) == n = 1

Rounds == 0..(MaxRounds - 1)

Stages == 0..(MaxStages - 1)

RS == Rounds \X Stages

\* The set-ups tried: every max_rounds, number of stages and max_steps
\* within the bounds.
SetUps ==
    { su \in [max_rounds : 1..MaxRounds, num_stages : 1..MaxStages,
               max_steps : 1..MaxSteps] :
        su.max_rounds * su.num_stages * su.max_steps <= MaxRunSteps }

\* The retry cap of train_and_save.  The sources use the name and no line of
\* them sets it; the value stands for "a fixed maximum attempt count".
MAX_TRAIN_FAILS == 2

\* dummy_reward_func: sum(node.rewards) after one step.
CoordinatorReward == 2

FollowerReward == 1

StepReward(n) == IF is_coordinator(n) THEN CoordinatorReward ELSE FollowerReward

\* follower_train(check_interval=5.0, max_check_interval=60.0 * 5)
check_interval == 5

max_check_interval == 300

Min(a, b) == IF a < b THEN a ELSE b

NoCache == [rs \in RS |-> EmptyDict]

NoMemo == [k \in Nodes \X RS |-> None]

HivemindNode_get_stage_outputs(round_cache, r, s) == round_cache[<<r, s>>]

HivemindNode_put_stage_outputs(round_cache, r, s, question, value) ==
    [round_cache EXCEPT ![<<r, s>>] = DictSet(@, question, value)]

HivemindNode_clear_stage_cache(round_cache) == NoCache

\* cleanup(): the accelerator caches are outside the model.
cleanup(round_cache) == HivemindNode_clear_stage_cache(round_cache)

InitProc ==
    [pc |-> "start", round_num |-> 0, stage_num |-> 0, round_cache |-> NoCache,
     memo |-> NoMemo, stage_rewards |-> 0, step |-> 0, num_fails |-> 0,
     caller |-> "none", join_stage |-> 0, loop_round |-> 0, done_rounds |-> {},
     check_backoff |-> check_interval, prev_rewards |-> EmptyDict,
     curr_rewards |-> EmptyDict, runs |-> 0, outcome |-> "running",
     trainer |-> "base", end_round |-> 0]

InitHist ==
    [ran |-> [n \in Nodes |-> << >>],
     joined |-> [n \in Nodes |-> << >>],
     dge |-> [n \in Nodes |-> {}],
     exc |-> [n \in Nodes |-> << >>],
     published |-> << >>,
     first_round |-> [n \in Nodes |-> None],
     swept |-> [n \in Nodes |-> << >>],
     submitted |-> << >>,
     last_publish |-> None,
     lb_source |-> [rs \in RS |-> EmptyDict],
     last_merge |-> [n \in Nodes |-> None]]

\* train(): the handler of "except Exception" prints the traceback and lets
\* train() return.
train_except_reraise(p) ==
    [p EXCEPT !.pc = "done", !.outcome = "raised", !.prev_rewards = EmptyDict,
              !.curr_rewards = EmptyDict]

train_except(p) ==
    [p EXCEPT !.pc = "done", !.outcome = "swallowed", !.prev_rewards = EmptyDict,
              !.curr_rewards = EmptyDict]

\* train_stages(round_num, start_stage, is_coordinator) is entered.
call_train_stages(p, r, start_stage, caller) ==
    [p EXCEPT !.round_num = r, !.stage_num = start_stage, !.caller = caller,
              !.runs = @ + 1, !.prev_rewards = EmptyDict, !.curr_rewards = EmptyDict,
              !.pc = "ts_stage"]

\* follower_train() is entered: done_rounds = set() and check_backoff =
\* check_interval.
enter_follower_train(p) ==
    [p EXCEPT !.caller = "none", !.done_rounds = {}, !.check_backoff = check_interval,
              !.prev_rewards = EmptyDict, !.curr_rewards = EmptyDict, !.pc = "fo_loop"]

\* TestnetGRPOTrainer.catch_up_train, "continue": the next round_num of
\* range(start_round, end_round + 1), and follower_train() once the range
\* is used up.
Testnet_catch_up_continue(p) ==
    IF p.loop_round + 1 <= p.end_round
    THEN call_train_stages([p EXCEPT !.loop_round = @ + 1], p.loop_round + 1, 0,
                           "catch_up")
    ELSE enter_follower_train(p)

\* catch_up_train without the break at the end of its loop body.
Testnet_catch_up_no_break(p) == Testnet_catch_up_continue(p)

\* TestnetGRPOTrainer.catch_up_train, "break": the statement closes the loop
\* body, after the try block and after the handler of "except Exception".
Testnet_catch_up_break(p) == enter_follower_train(p)

\* TestnetGRPOTrainer.catch_up_train: train_stages raised e.
Testnet_catch_up_except(p, e) ==
    IF e = "DatasetGenerationError"
    THEN Testnet_catch_up_continue(p)
    ELSE Testnet_catch_up_break(p)

\* follower_train re-runs the round whenever the error is raised at a
\* stage > 0.
propagate_restart_by_stage(p, e) ==
    IF p.caller = "catch_up"
    THEN Testnet_catch_up_except(p, e)
    ELSE IF p.caller = "follower" /\ e = "DatasetGenerationError" /\ p.stage_num > 0
    THEN call_train_stages(p, p.round_num, 0, "follower_retry")
    ELSE train_except(p)

\* An exception e leaves train_stages: the caller's handlers, up to train().
\* follower_train re-runs the round from stage 0 after a
\* DatasetGenerationError of a run that started at a stage > 0.
propagate(p, e) ==
    IF p.caller = "catch_up"
    THEN Testnet_catch_up_except(p, e)
    ELSE IF p.caller = "follower" /\ e = "DatasetGenerationError" /\ p.join_stage > 0
    THEN call_train_stages(p, p.round_num, 0, "follower_retry")
    ELSE train_except(p)

\* What the exception adds to the history.
hist_raise(n, e) ==
    [hist EXCEPT !.exc[n] = Append(@, e),
                 !.dge[n] = IF e = "DatasetGenerationError"
                            THEN @ \cup {proc[n].round_num} ELSE @,
                 !.swept[n] = IF proc[n].caller = "catch_up" /\ e # "retry"
                              THEN Append(@, <<proc[n].round_num, e>>) ELSE @]

\* get_round_and_stage(dht): None stands for the ValueError "cannot find
\* current round and stage".
get_round_and_stage(pointer) == pointer

\* TestnetGRPOTrainer.get_round_and_stage: what the ledger reports.
Testnet_get_round_and_stage(l) == Some(l.pointer)

\* self.get_round_and_stage() of node n's trainer.
self_get_round_and_stage(n) ==
    IF proc[n].trainer = "testnet"
    THEN Testnet_get_round_and_stage(ledger)
    ELSE get_round_and_stage(dht_pointer)

setUp == <<hashVars, healthVars, mergeVars, stage_data, max_steps>>

notTrain == <<setUp, ledger>>

(***************************************************************************)
(* train(), coordinator_train() and follower_train().                      *)
(***************************************************************************)
\* train() of the coordinator: coordinator_train() starts with round 0.
StartCoordinator(n) ==
    /\ proc[n].pc = "start"
    /\ is_coordinator(n)
    /\ proc' = [proc EXCEPT ![n] = [@ EXCEPT !.loop_round = 0, !.pc = "co_loop"]]
    /\ UNCHANGED <<storeVars, faults, hist, notTrain>>

\* train() of a follower whose pointer read raises: the handler of train().
StartFollowerNoPointer(n) ==
    /\ proc[n].pc = "start"
    /\ ~is_coordinator(n)
    /\ get_round_and_stage(dht_pointer) = None
    /\ proc' = [proc EXCEPT ![n] = train_except(@)]
    /\ hist' = hist_raise(n, "ValueError")
    /\ UNCHANGED <<storeVars, faults, notTrain>>

\* Where train() goes after reading curr_round: catch_up_train and
\* follower_train are called only when curr_round > 0.  catch_up_train is
\* given end_round, so its loop, which sits under "if end_round is None",
\* is not run.
train_follower_always(p, curr_round) ==
    [p EXCEPT !.done_rounds = {}, !.check_backoff = check_interval, !.pc = "fo_loop"]

train_follower(p, curr_round) ==
    IF curr_round > 0
    THEN [p EXCEPT !.done_rounds = {}, !.check_backoff = check_interval,
                   !.pc = "fo_loop"]
    ELSE [p EXCEPT !.pc = "done", !.outcome = "returned"]

StartFollower(n) ==
    /\ proc[n].pc = "start"
    /\ ~is_coordinator(n)
    /\ get_round_and_stage(dht_pointer) # None
    /\ proc' = [proc EXCEPT ![n] =
                   train_follower(@, TheValue(get_round_and_stage(dht_pointer))[1])]
    /\ UNCHANGED <<storeVars, faults, hist, notTrain>>

\* coordinator_train: the while test holds and train_stages(round_num, 0,
\* is_coordinator=True) is called.
CoordinatorRound(n) ==
    /\ proc[n].pc = "co_loop"
    /\ proc[n].loop_round < stage_data.max_rounds
    /\ proc' = [proc EXCEPT ![n] = call_train_stages(@, @.loop_round, 0, "coordinator")]
    /\ UNCHANGED <<storeVars, faults, hist, notTrain>>

\* coordinator_train and follower_train: train_timeout has elapsed at the
\* while test; "Training timed out!" is logged and the function returns.
TrainTimeout(n) ==
    /\ proc[n].pc \in {"co_loop", "fo_loop"}
    /\ faults > 0
    /\ faults' = faults - 1
    /\ proc' = [proc EXCEPT ![n] = [@ EXCEPT !.pc = "done", !.outcome = "timed_out"]]
    /\ UNCHANGED <<storeVars, hist, notTrain>>

\* The stage follower_train starts the round at.
follower_join_stage_zero(stage) == 0

follower_join_stage(stage) == stage

\* follower_train: the pointer reports a round that is not in done_rounds.
FollowerJoin(n) ==
    /\ proc[n].pc = "fo_loop"
    /\ self_get_round_and_stage(n) # None
    /\ LET round_num == TheValue(self_get_round_and_stage(n))[1]
           stage == TheValue(self_get_round_and_stage(n))[2]
       IN /\ round_num \notin proc[n].done_rounds
          /\ proc' = [proc EXCEPT ![n] =
                 call_train_stages([@ EXCEPT !.join_stage = stage], round_num,
                                   follower_join_stage(stage), "follower")]
          /\ hist' = [hist EXCEPT !.joined[n] = Append(@, <<round_num, stage>>)]
    /\ UNCHANGED <<storeVars, faults, notTrain>>

\* The doubling without the bound max_check_interval.
next_check_backoff_unbounded(check_backoff) ==
    check_backoff * 2

\* follower_train: check_backoff = min(check_backoff * 2, max_check_interval)
next_check_backoff(check_backoff) ==
    Min(check_backoff * 2, max_check_interval)

\* follower_train: the pointer reports a round in done_rounds; the follower
\* sleeps check_backoff, doubles it up to max_check_interval, and returns
\* when the round is the last one.
FollowerWait(n) ==
    /\ proc[n].pc = "fo_loop"
    /\ self_get_round_and_stage(n) # None
    /\ LET round_num == TheValue(self_get_round_and_stage(n))[1]
       IN /\ round_num \in proc[n].done_rounds
          /\ proc' = [proc EXCEPT ![n] =
                 [@ EXCEPT !.check_backoff = next_check_backoff(@),
                           !.pc = IF round_num = stage_data.max_rounds - 1 THEN "done" ELSE @,
                           !.outcome = IF round_num = stage_data.max_rounds - 1 THEN "returned" ELSE @]]
    /\ UNCHANGED <<storeVars, faults, hist, notTrain>>

(***************************************************************************)
(* TestnetGRPOTrainer: train() and the ledger.                             *)
(***************************************************************************)
\* Where TestnetGRPOTrainer.train() goes after reading curr_round:
\* catch_up_train(0, curr_round - 1), which starts with round 0, when
\* curr_round > 0, and nothing otherwise.
Testnet_train(p, curr_round) ==
    IF curr_round > 0
    THEN call_train_stages([p EXCEPT !.loop_round = 0, !.end_round = curr_round - 1],
                           0, 0, "catch_up")
    ELSE [p EXCEPT !.pc = "done", !.outcome = "returned"]

\* train() of a testnet node: the ledger is read, by train() and by
\* catch_up_train.
TestnetStart(n) ==
    /\ proc[n].pc = "start"
    /\ proc[n].trainer = "testnet"
    /\ LET curr_round == TheValue(Testnet_get_round_and_stage(ledger))[1]
       IN /\ proc' = [proc EXCEPT ![n] = Testnet_train(@, curr_round)]
          /\ hist' = [hist EXCEPT !.first_round[n] = Some(curr_round)]
    /\ UNCHANGED <<storeVars, faults, notTrain>>

\* train() of a testnet node whose read of the ledger raises: the handler of
\* train().
TestnetStartNoPointer(n) ==
    /\ proc[n].pc = "start"
    /\ proc[n].trainer = "testnet"
    /\ faults > 0
    /\ faults' = faults - 1
    /\ proc' = [proc EXCEPT ![n] = train_except(@)]
    /\ hist' = hist_raise(n, "LedgerError")
    /\ UNCHANGED <<storeVars, notTrain>>

\* follower_train: the read of the pointer raises; the follower sleeps
\* check_interval and goes round the loop.
FollowerPointerFail(n) ==
    /\ proc[n].pc = "fo_loop"
    /\ proc[n].trainer = "testnet"
    /\ faults > 0
    /\ faults' = faults - 1
    /\ hist' = hist_raise(n, "LedgerError")
    /\ UNCHANGED <<storeVars, proc, notTrain>>

\* The ledger moves to the next stage, or to stage 0 of the next round.
LedgerAdvance ==
    /\ ledger # None
    /\ LET r == ledger.pointer[1]
           s == ledger.pointer[2]
       IN \/ /\ s + 1 < stage_data.num_stages
             /\ ledger' = [ledger EXCEPT !.pointer = <<r, s + 1>>]
          \/ /\ s + 1 = stage_data.num_stages
             /\ r + 1 < stage_data.max_rounds
             /\ ledger' = [ledger EXCEPT !.pointer = <<r + 1, 0>>]
    /\ UNCHANGED <<storeVars, proc, faults, hist, setUp>>

(***************************************************************************)
(* train_stages.                                                           *)
(***************************************************************************)
\* The pointer after the head of the stage loop, "if is_coordinator:
\* dht.store(key=ROUND_STAGE_NUMBER_KEY, value=(round_num, stage_num))".
store_pointer_any_caller(p, pointer) == Some(<<p.round_num, p.stage_num>>)

store_pointer_first_stage_only(p, pointer) ==
    IF p.caller = "coordinator" /\ p.stage_num = 0
    THEN Some(<<p.round_num, p.stage_num>>)
    ELSE pointer

\* The coordinator announces the stage after the one it is about to run.
store_pointer_stage_ahead(p, pointer) ==
    IF p.caller = "coordinator"
    THEN Some(<<p.round_num, p.stage_num + 1>>)
    ELSE pointer

store_pointer(p, pointer) ==
    IF p.caller = "coordinator"
    THEN Some(<<p.round_num, p.stage_num>>)
    ELSE pointer

\* The head of the stage loop: node.stage_num is set and the coordinator
\* publishes the pointer.
TsEnterStage(n) ==
    /\ proc[n].pc = "ts_stage"
    /\ proc[n].stage_num < stage_data.num_stages
    /\ dht_pointer' = store_pointer(proc[n], dht_pointer)
    /\ proc' = [proc EXCEPT ![n] = [@ EXCEPT !.pc = "ts_data"]]
    /\ hist' = [hist EXCEPT
                  !.ran[n] = Append(@, <<proc[n].round_num, proc[n].stage_num>>),
                  !.published = IF store_pointer(proc[n], None) # None
                                THEN Append(@, <<n, proc[n].caller,
                                                 TheValue(store_pointer(proc[n], None))>>)
                                ELSE @]
    /\ UNCHANGED <<dht_rewards, dht_outputs, dht_leaderboard, faults, notTrain>>

\* follower_train without its test of the last round after a round it ran.
after_train_stages_no_return(p) ==
    IF p.caller = "catch_up"
    THEN Testnet_catch_up_break([p EXCEPT !.round_cache = cleanup(@)])
    ELSE IF p.caller = "coordinator"
    THEN IF p.loop_round + 1 = stage_data.max_rounds
         THEN [p EXCEPT !.loop_round = @ + 1, !.pc = "done", !.outcome = "returned"]
         ELSE [p EXCEPT !.loop_round = @ + 1, !.pc = "co_loop"]
    ELSE [p EXCEPT !.done_rounds = @ \cup {p.round_num},
                   !.check_backoff = check_interval, !.pc = "fo_loop"]

\* What the caller does when train_stages returns.
after_train_stages(p) ==
    IF p.caller = "catch_up"
    THEN Testnet_catch_up_break([p EXCEPT !.round_cache = cleanup(@)])
    ELSE IF p.caller = "coordinator"
    THEN IF p.loop_round + 1 = stage_data.max_rounds
         THEN [p EXCEPT !.loop_round = @ + 1, !.pc = "done", !.outcome = "returned"]
         ELSE [p EXCEPT !.loop_round = @ + 1, !.pc = "co_loop"]
    ELSE IF p.round_num = stage_data.max_rounds - 1
         THEN [p EXCEPT !.done_rounds = @ \cup {p.round_num},
                        !.check_backoff = check_interval,
                        !.pc = "done", !.outcome = "returned"]
         ELSE [p EXCEPT !.done_rounds = @ \cup {p.round_num},
                        !.check_backoff = check_interval, !.pc = "fo_loop"]

\* The stage loop is over: cleanup(), and train_stages returns, to the
\* caller or to the train_stages of TestnetGRPOTrainer that called it.
TsReturn(n) ==
    /\ proc[n].pc = "ts_stage"
    /\ proc[n].stage_num = stage_data.num_stages
    /\ proc' = [proc EXCEPT ![n] =
                   IF @.trainer = "testnet"
                   THEN [@ EXCEPT !.round_cache = cleanup(@), !.pc = "ts_winners"]
                   ELSE after_train_stages([@ EXCEPT !.round_cache = cleanup(@)])]
    /\ UNCHANGED <<storeVars, faults, hist, notTrain>>

\* What round_winner_fn() may return: the node keys by total reward.
WinnerLists == {<< >>, <<1, 2>>}

\* submit_winners passes winners[:1] to the ledger.
submit_winners(l, n, round_num, winners) ==
    [l EXCEPT !.winners = Append(@, <<n, round_num,
                                     SubSeq(winners, 1, Min(1, Len(winners)))>>)]

\* TestnetGRPOTrainer.train_stages after super().train_stages returned:
\* round_winner_fn() is called and its result submitted, whatever
\* is_coordinator is; then the caller goes on.
TestnetSubmitWinners(n) ==
    /\ proc[n].pc = "ts_winners"
    /\ \E winners \in WinnerLists :
         ledger' = submit_winners(ledger, n, proc[n].round_num, winners)
    /\ proc' = [proc EXCEPT ![n] = after_train_stages(@)]
    /\ hist' = [hist EXCEPT
                  !.submitted = Append(@, <<n, proc[n].caller, proc[n].round_num>>),
                  !.swept[n] = IF proc[n].caller = "catch_up"
                               THEN Append(@, <<proc[n].round_num, "ok">>) ELSE @]
    /\ UNCHANGED <<storeVars, faults, setUp>>

\* A trainer that takes over the total of the trainer before it.
new_trainer_keeps_total(p) ==
    [p EXCEPT !.num_fails = 0, !.step = 0,
              !.prev_rewards = EmptyDict, !.pc = "tr_step"]

\* The trainer of the stage is constructed (stage_rewards = 0.0) and
\* train_and_save starts its first attempt.
new_trainer(p) ==
    [p EXCEPT !.stage_rewards = 0, !.num_fails = 0, !.step = 0,
              !.prev_rewards = EmptyDict, !.pc = "tr_step"]

DatasetErrors == {"DatasetGenerationError", "ValueError"}

\* datasets_fn of stage 0 returns the initial datasets.
DatasetStage0(n) ==
    /\ proc[n].pc = "ts_data"
    /\ proc[n].stage_num = 0
    /\ proc' = [proc EXCEPT ![n] = new_trainer(@)]
    /\ UNCHANGED <<storeVars, faults, hist, notTrain>>

\* datasets_fn of stage 0 raises.
DatasetStage0Fail(n, e) ==
    /\ proc[n].pc = "ts_data"
    /\ proc[n].stage_num = 0
    /\ faults > 0
    /\ faults' = faults - 1
    /\ proc' = [proc EXCEPT ![n] = propagate(@, e)]
    /\ hist' = hist_raise(n, e)
    /\ UNCHANGED <<storeVars, notTrain>>

\* The orders a read may list the subkeys of a record in: the store does not
\* fix the order, so every order is taken.
KeyOrders(d) ==
    { [i \in 1..Len(d) |-> d[f[i]]] :
        f \in { g \in [1..Len(d) -> 1..Len(d)] :
                   \A i, j \in 1..Len(d) : g[i] = g[j] => i = j } }

\* merged_prev_stage_datasets: the poll of the reward record of stage s-1
\* ends, with the record it read or, on wait_timeout, with nothing.
DatasetPoll(n) ==
    /\ proc[n].pc = "ts_data"
    /\ proc[n].stage_num > 0
    /\ \E read \in KeyOrders(dht_rewards[<<proc[n].round_num, proc[n].stage_num - 1>>]) :
         proc' = [proc EXCEPT ![n] = [@ EXCEPT !.prev_rewards = read, !.pc = "ts_merge"]]
    /\ UNCHANGED <<storeVars, faults, hist, notTrain>>

\* The get_outputs results of the merge node n is about to do.
OwnOutputs(n) ==
    LET r == proc[n].round_num
        s == proc[n].stage_num - 1
    IN get_outputs(proc[n].memo[<<n, <<r, s>>>>],
                   HivemindNode_get_stage_outputs(proc[n].round_cache, r, s),
                   dht_outputs[<<n, <<r, s>>>>])

PeerOutputs(n) ==
    LET r == proc[n].round_num
        s == proc[n].stage_num - 1
    IN [k \in Nodes |-> get_outputs(proc[n].memo[<<k, <<r, s>>>>], EmptyDict,
                                    dht_outputs[<<k, <<r, s>>>>])]

MergeOf(n) ==
    merged_prev_stage_datasets(n, proc[n].prev_rewards, OwnOutputs(n), PeerOutputs(n),
                               dht_sample_limit)

\* lru_cache after the merge: every get_outputs call that returned is kept.
memo_after_merge(n) ==
    LET r == proc[n].round_num
        s == proc[n].stage_num - 1
        m == MergeOf(n)
    IN [k \in Nodes \X RS |->
          IF k = <<n, <<r, s>>>> /\ OwnOutputs(n) # None THEN OwnOutputs(n)
          ELSE IF /\ k[2] = <<r, s>>
                  /\ \E i \in 1..Len(m.fetched) : m.fetched[i] = k[1]
                  /\ PeerOutputs(n)[k[1]] # None
               THEN PeerOutputs(n)[k[1]]
          ELSE proc[n].memo[k]]

\* What the node's own stage s-1 outputs are when the merge runs: the cached
\* ones, else the stored ones (history only).
hist_merge(n) ==
    LET r == proc[n].round_num
        s == proc[n].stage_num - 1
    IN [hist EXCEPT !.last_merge[n] =
          Some([round |-> r, stage |-> s + 1,
                prev_rewards |-> proc[n].prev_rewards,
                own |-> get_outputs_unmemoised(None,
                            HivemindNode_get_stage_outputs(proc[n].round_cache, r, s),
                            dht_outputs[<<n, <<r, s>>>>]),
                result |-> MergeOf(n)])]

\* merged_prev_stage_datasets collects, groups, merges and samples.
DatasetMerge(n) ==
    /\ proc[n].pc = "ts_merge"
    /\ proc' = [proc EXCEPT ![n] = new_trainer([@ EXCEPT !.memo = memo_after_merge(n)])]
    /\ hist' = hist_merge(n)
    /\ UNCHANGED <<storeVars, faults, notTrain>>

\* merged_prev_stage_datasets collects and groups, and merge_fn or
\* samples_fn raises.
DatasetMergeFail(n, e) ==
    /\ proc[n].pc = "ts_merge"
    /\ faults > 0
    /\ faults' = faults - 1
    /\ proc' = [proc EXCEPT ![n] = propagate([@ EXCEPT !.memo = memo_after_merge(n)], e)]
    /\ hist' = [hist_raise(n, e) EXCEPT !.last_merge = hist_merge(n).last_merge]
    /\ UNCHANGED <<storeVars, notTrain>>

\* compute_loss without the store of the outputs: the cache only.
ComputeLossOutput_cache_only(n) ==
    /\ proc[n].pc = "tr_step"
    /\ proc[n].step < max_steps
    /\ LET r == proc[n].round_num
           s == proc[n].stage_num
           question == Question(proc[n].step + 1)
           value == PayloadOf(n, proc[n].runs)
       IN proc' = [proc EXCEPT ![n] =
                 [@ EXCEPT !.round_cache =
                               HivemindNode_put_stage_outputs(@, r, s, question, value),
                           !.pc = "cl_reward"]]
    /\ UNCHANGED <<storeVars, faults, hist, notTrain>>

(***************************************************************************)
(* trainer.train(): max_steps steps, each ending in compute_loss.           *)
(***************************************************************************)
\* compute_loss: the output of the step is stored under the question and
\* put in the node's cache.
ComputeLossOutput(n) ==
    /\ proc[n].pc = "tr_step"
    /\ proc[n].step < max_steps
    /\ LET r == proc[n].round_num
           s == proc[n].stage_num
           question == Question(proc[n].step + 1)
           value == PayloadOf(n, proc[n].runs)
       IN /\ dht_outputs' = [dht_outputs EXCEPT ![<<n, <<r, s>>>>] =
                                DictSet(@, question, value)]
          /\ proc' = [proc EXCEPT ![n] =
                 [@ EXCEPT !.round_cache =
                               HivemindNode_put_stage_outputs(@, r, s, question, value),
                           !.pc = "cl_reward"]]
    /\ UNCHANGED <<dht_pointer, dht_rewards, dht_leaderboard, faults, hist, notTrain>>

\* compute_loss: stage_rewards += sum(node.rewards), stored under the node's
\* key; a node that is not the coordinator is done with the step.
ComputeLossReward(n) ==
    /\ proc[n].pc = "cl_reward"
    /\ LET r == proc[n].round_num
           s == proc[n].stage_num
           total == proc[n].stage_rewards + StepReward(n)
       IN /\ dht_rewards' = [dht_rewards EXCEPT ![<<r, s>>] = RecordSet(@, n, total)]
          /\ proc' = [proc EXCEPT ![n] =
                 IF is_coordinator(n)
                 THEN [@ EXCEPT !.stage_rewards = total, !.pc = "lb_read"]
                 ELSE [@ EXCEPT !.stage_rewards = total, !.step = @ + 1,
                                !.pc = "tr_step"]]
    /\ UNCHANGED <<dht_pointer, dht_outputs, dht_leaderboard, faults, hist, notTrain>>

\* publish_leaderboard: the reward record is read.
PublishLeaderboardRead(n) ==
    /\ proc[n].pc = "lb_read"
    /\ proc' = [proc EXCEPT ![n] =
                   [@ EXCEPT !.curr_rewards =
                                 dht_rewards[<<proc[n].round_num, proc[n].stage_num>>],
                             !.pc = "lb_write"]]
    /\ UNCHANGED <<storeVars, faults, hist, notTrain>>

\* publish_leaderboard: the value stored for curr_rewards, None when the
\* record could not be read.
publish_leaderboard_ascending(curr_rewards) ==
    IF curr_rewards # EmptyDict THEN Some(leaderboard_sorted_ascending(curr_rewards))
    ELSE None

publish_leaderboard_by_reward_only(curr_rewards) ==
    IF curr_rewards # EmptyDict THEN Some(leaderboard_sorted_by_reward_only(curr_rewards))
    ELSE None

publish_leaderboard(curr_rewards) ==
    IF curr_rewards # EmptyDict THEN Some(leaderboard_sorted(curr_rewards))
    ELSE None

\* publish_leaderboard: the sorted list is stored, and the step is over.
PublishLeaderboardWrite(n) ==
    /\ proc[n].pc = "lb_write"
    /\ LET rs == <<proc[n].round_num, proc[n].stage_num>>
           value == publish_leaderboard(proc[n].curr_rewards)
       IN /\ dht_leaderboard' = IF value # None
                                THEN [dht_leaderboard EXCEPT ![rs] = TheValue(value)]
                                ELSE dht_leaderboard
          /\ hist' = IF value # None
                     THEN [hist EXCEPT
                             !.last_publish = Some([rs |-> rs,
                                                    snapshot |-> proc[n].curr_rewards,
                                                    value |-> TheValue(value)]),
                             !.lb_source[rs] = proc[n].curr_rewards]
                     ELSE hist
    /\ proc' = [proc EXCEPT ![n] = [@ EXCEPT !.step = @ + 1, !.curr_rewards = EmptyDict,
                                              !.pc = "tr_step"]]
    /\ UNCHANGED <<dht_pointer, dht_rewards, dht_outputs, faults, notTrain>>

\* train_and_save with a cleanup() after the engine has returned.
TrainDone_with_cleanup(n) ==
    /\ proc[n].pc = "tr_step"
    /\ proc[n].step = max_steps
    /\ proc' = [proc EXCEPT ![n] = [@ EXCEPT !.round_cache = cleanup(@),
                                             !.stage_num = @ + 1, !.pc = "ts_stage"]]
    /\ UNCHANGED <<storeVars, faults, hist, notTrain>>

\* trainer.train() returns; train_and_save saves and the loop of
\* train_stages goes to the next stage.
TrainDone(n) ==
    /\ proc[n].pc = "tr_step"
    /\ proc[n].step = max_steps
    /\ proc' = [proc EXCEPT ![n] = [@ EXCEPT !.stage_num = @ + 1, !.pc = "ts_stage"]]
    /\ UNCHANGED <<storeVars, faults, hist, notTrain>>

TrainErrors == {"BlockingIOError", "EOFError", "RuntimeError"}

\* except (BlockingIOError, EOFError)
TransientErrors == {"BlockingIOError", "EOFError"}

\* The error is logged and the loop of train_stages goes to the next stage.
train_and_save_except_next_stage(p, e) ==
    [p EXCEPT !.stage_num = @ + 1, !.pc = "ts_stage"]

\* Every exception is retried, as long as attempts are left.
train_and_save_except_retry_any(p, e) ==
    IF p.num_fails + 1 < MAX_TRAIN_FAILS
    THEN [p EXCEPT !.round_cache = cleanup(@), !.num_fails = @ + 1,
                   !.step = 0, !.pc = "tr_step"]
    ELSE propagate([p EXCEPT !.round_cache = cleanup(@), !.num_fails = @ + 1],
                   "UnboundLocalError")

\* train_and_save when trainer.train() raises e with num_fails failures
\* before it: BlockingIOError and EOFError call cleanup() and go round the
\* loop; when the loop ends without a result, train_result is unbound and
\* the next line raises UnboundLocalError.
train_and_save_except(p, e) ==
    IF e \in TransientErrors
    THEN IF p.num_fails + 1 < MAX_TRAIN_FAILS
         THEN [p EXCEPT !.round_cache = cleanup(@), !.num_fails = @ + 1,
                        !.step = 0, !.pc = "tr_step"]
         ELSE propagate([p EXCEPT !.round_cache = cleanup(@), !.num_fails = @ + 1],
                        "UnboundLocalError")
    ELSE propagate(p, e)

\* A store call of compute_loss, or the engine, raises.
TrainFail(n, e) ==
    /\ \/ proc[n].pc = "tr_step" /\ proc[n].step < max_steps
       \/ proc[n].pc = "cl_reward"
    /\ faults > 0
    /\ faults' = faults - 1
    /\ proc' = [proc EXCEPT ![n] = train_and_save_except(@, e)]
    /\ hist' = hist_raise(n, IF e \in TransientErrors
                             THEN IF proc[n].num_fails + 1 < MAX_TRAIN_FAILS
                                  THEN "retry" ELSE "UnboundLocalError"
                             ELSE e)
    /\ UNCHANGED <<storeVars, notTrain>>

(***************************************************************************)
(* Specifications.                                                         *)
(***************************************************************************)
\* The coordinator and a follower run train() on one store.
Init ==
    /\ hk_in = EmptyDict /\ hk_out = None /\ hk_out2 = None /\ hk_pc = "idle"
    /\ now = 0 /\ last_polled = None /\ cache_data = None /\ poller_pc = "idle"
    /\ health = None /\ poll_done = None
    /\ mg_rewards = EmptyDict /\ mg_cache = EmptyDict /\ mg_store = None
    /\ mg_limit = 0 /\ mg_score = None /\ mg_result = None /\ mg_winners = None
    /\ mg_pc = "idle"
    /\ dht_pointer = None
    /\ dht_rewards = [rs \in RS |-> EmptyDict]
    /\ dht_outputs = [k \in Nodes \X RS |-> EmptyDict]
    /\ dht_leaderboard = [rs \in RS |-> << >>]
    /\ proc = [n \in Nodes |-> InitProc]
    /\ \E su \in SetUps :
         /\ stage_data = [max_rounds |-> su.max_rounds, num_stages |-> su.num_stages]
         /\ max_steps = su.max_steps
    /\ faults = MaxFaults
    /\ hist = InitHist
    /\ ledger = None

Next ==
    \/ \E n \in Nodes : StartCoordinator(n)
    \/ \E n \in Nodes : StartFollowerNoPointer(n)
    \/ \E n \in Nodes : StartFollower(n)
    \/ \E n \in Nodes : CoordinatorRound(n)
    \/ \E n \in Nodes : TrainTimeout(n)
    \/ \E n \in Nodes : FollowerJoin(n)
    \/ \E n \in Nodes : FollowerWait(n)
    \/ \E n \in Nodes : TsEnterStage(n)
    \/ \E n \in Nodes : TsReturn(n)
    \/ \E n \in Nodes : DatasetStage0(n)
    \/ \E n \in Nodes, e \in DatasetErrors : DatasetStage0Fail(n, e)
    \/ \E n \in Nodes : DatasetPoll(n)
    \/ \E n \in Nodes : DatasetMerge(n)
    \/ \E n \in Nodes, e \in DatasetErrors : DatasetMergeFail(n, e)
    \/ \E n \in Nodes : ComputeLossOutput(n)
    \/ \E n \in Nodes : ComputeLossReward(n)
    \/ \E n \in Nodes : PublishLeaderboardRead(n)
    \/ \E n \in Nodes : PublishLeaderboardWrite(n)
    \/ \E n \in Nodes : TrainDone(n)
    \/ \E n \in Nodes, e \in TrainErrors : TrainFail(n, e)

Spec == Init /\ [][Next]_vars

\* The while test of coordinator_train and follower_train compares
\* time.monotonic() with train_timeout: the clock goes on whatever the node
\* does, so that the test fails at some iteration of a loop that goes on.
TrainTimeoutElapsed(n) ==
    /\ proc[n].pc \in {"co_loop", "fo_loop"}
    /\ proc' = [proc EXCEPT ![n] = [@ EXCEPT !.pc = "done", !.outcome = "timed_out"]]
    /\ UNCHANGED <<storeVars, faults, hist, notTrain>>

\* The steps node n takes when no call fails.
NodeRuns(n) ==
    \/ StartCoordinator(n)
    \/ StartFollowerNoPointer(n)
    \/ StartFollower(n)
    \/ CoordinatorRound(n)
    \/ FollowerJoin(n)
    \/ FollowerWait(n)
    \/ TsEnterStage(n)
    \/ TsReturn(n)
    \/ DatasetStage0(n)
    \/ DatasetPoll(n)
    \/ DatasetMerge(n)
    \/ ComputeLossOutput(n)
    \/ ComputeLossReward(n)
    \/ PublishLeaderboardRead(n)
    \/ PublishLeaderboardWrite(n)
    \/ TrainDone(n)

NextLive ==
    \/ \E n \in Nodes : NodeRuns(n)
    \/ \E n \in Nodes : TrainTimeoutElapsed(n)
    \/ \E n \in Nodes, e \in DatasetErrors : DatasetStage0Fail(n, e)
    \/ \E n \in Nodes, e \in DatasetErrors : DatasetMergeFail(n, e)
    \/ \E n \in Nodes, e \in TrainErrors : TrainFail(n, e)

\* The set-ups of the runs whose termination is checked.
LiveSetUps ==
    { su \in SetUps : su.max_rounds * su.num_stages * su.max_steps <= MaxLiveRunSteps }

InitLive ==
    /\ hk_in = EmptyDict /\ hk_out = None /\ hk_out2 = None /\ hk_pc = "idle"
    /\ now = 0 /\ last_polled = None /\ cache_data = None /\ poller_pc = "idle"
    /\ health = None /\ poll_done = None
    /\ mg_rewards = EmptyDict /\ mg_cache = EmptyDict /\ mg_store = None
    /\ mg_limit = 0 /\ mg_score = None /\ mg_result = None /\ mg_winners = None
    /\ mg_pc = "idle"
    /\ dht_pointer = None
    /\ dht_rewards = [rs \in RS |-> EmptyDict]
    /\ dht_outputs = [k \in Nodes \X RS |-> EmptyDict]
    /\ dht_leaderboard = [rs \in RS |-> << >>]
    /\ proc = [n \in Nodes |-> InitProc]
    /\ \E su \in LiveSetUps :
         /\ stage_data = [max_rounds |-> su.max_rounds, num_stages |-> su.num_stages]
         /\ max_steps = su.max_steps
    /\ faults = MaxFaults
    /\ hist = InitHist
    /\ ledger = None

\* Each node is a process of its own that goes on running (train() is the
\* main thread of the process), and its clock goes on.
SpecLive ==
    /\ InitLive
    /\ [][NextLive]_vars
    /\ \A n \in Nodes : WF_vars(NodeRuns(n))
    /\ \A n \in Nodes : WF_vars(TrainTimeoutElapsed(n))

\* hash_keys applied to an output map, and again to its result.
InitHash ==
    /\ hk_in \in OutputMaps /\ hk_out = None /\ hk_out2 = None /\ hk_pc = "start"
    /\ now = 0 /\ last_polled = None /\ cache_data = None /\ poller_pc = "idle"
    /\ health = None /\ poll_done = None
    /\ mg_rewards = EmptyDict /\ mg_cache = EmptyDict /\ mg_store = None
    /\ mg_limit = 0 /\ mg_score = None /\ mg_result = None /\ mg_winners = None
    /\ mg_pc = "idle"
    /\ dht_pointer = None /\ dht_rewards = None /\ dht_outputs = None
    /\ dht_leaderboard = None
    /\ proc = None /\ stage_data = None /\ max_steps = 0 /\ faults = 0 /\ hist = None
    /\ ledger = None

NextHash ==
    \/ HashOnce
    \/ HashTwice

\* The set-ups of the one-node runs, with the faults to inject: the more
\* faults the shorter the run.
TestnetSetUps ==
    { su \in [max_rounds : 1..MaxRounds, num_stages : 1..MaxStages,
               max_steps : 1..MaxSteps, faults : 1..MAX_TRAIN_FAILS] :
        su.max_rounds * su.num_stages * su.max_steps * su.faults
            <= MaxTestnetRunSteps }

\* A testnet node runs TestnetGRPOTrainer.train() while the ledger moves
\* through the rounds and stages; the other node is not started.
InitTestnet ==
    /\ hk_in = EmptyDict /\ hk_out = None /\ hk_out2 = None /\ hk_pc = "idle"
    /\ now = 0 /\ last_polled = None /\ cache_data = None /\ poller_pc = "idle"
    /\ health = None /\ poll_done = None
    /\ mg_rewards = EmptyDict /\ mg_cache = EmptyDict /\ mg_store = None
    /\ mg_limit = 0 /\ mg_score = None /\ mg_result = None /\ mg_winners = None
    /\ mg_pc = "idle"
    /\ dht_pointer = None
    /\ dht_rewards = [rs \in RS |-> EmptyDict]
    /\ dht_outputs = [k \in Nodes \X RS |-> EmptyDict]
    /\ dht_leaderboard = [rs \in RS |-> << >>]
    /\ proc = [n \in Nodes |->
                  [InitProc EXCEPT !.trainer = "testnet",
                                   !.pc = IF is_coordinator(n) THEN "off" ELSE "start"]]
    /\ \E su \in TestnetSetUps :
         /\ stage_data = [max_rounds |-> su.max_rounds, num_stages |-> su.num_stages]
         /\ max_steps = su.max_steps
         /\ faults = su.faults
    /\ hist = InitHist
    /\ ledger = [pointer |-> <<0, 0>>, winners |-> << >>]

NextTestnet ==
    \/ \E n \in Nodes : TestnetStart(n)
    \/ \E n \in Nodes : TestnetStartNoPointer(n)
    \/ \E n \in Nodes : FollowerPointerFail(n)
    \/ LedgerAdvance
    \/ \E n \in Nodes : TrainTimeout(n)
    \/ \E n \in Nodes : FollowerJoin(n)
    \/ \E n \in Nodes : FollowerWait(n)
    \/ \E n \in Nodes : TsEnterStage(n)
    \/ \E n \in Nodes : TsReturn(n)
    \/ \E n \in Nodes : TestnetSubmitWinners(n)
    \/ \E n \in Nodes : DatasetStage0(n)
    \/ \E n \in Nodes, e \in DatasetErrors : DatasetStage0Fail(n, e)
    \/ \E n \in Nodes : DatasetPoll(n)
    \/ \E n \in Nodes : DatasetMerge(n)
    \/ \E n \in Nodes, e \in DatasetErrors : DatasetMergeFail(n, e)
    \/ \E n \in Nodes : ComputeLossOutput(n)
    \/ \E n \in Nodes : ComputeLossReward(n)
    \/ \E n \in Nodes : TrainDone(n)
    \/ \E n \in Nodes, e \in TrainErrors : TrainFail(n, e)

SpecTestnet == InitTestnet /\ [][NextTestnet]_vars

SpecHash == InitHash /\ [][NextHash]_vars

\* The server: the poller thread, the clock and health requests.
InitHealth ==
    /\ hk_in = EmptyDict /\ hk_out = None /\ hk_out2 = None /\ hk_pc = "idle"
    /\ now = 0 /\ last_polled = None /\ cache_data = None /\ poller_pc = "poll"
    /\ health = None /\ poll_done = None
    /\ mg_rewards = EmptyDict /\ mg_cache = EmptyDict /\ mg_store = None
    /\ mg_limit = 0 /\ mg_score = None /\ mg_result = None /\ mg_winners = None
    /\ mg_pc = "idle"
    /\ dht_pointer = None /\ dht_rewards = None /\ dht_outputs = None
    /\ dht_leaderboard = None
    /\ proc = None /\ stage_data = None /\ max_steps = 0 /\ faults = 0 /\ hist = None
    /\ ledger = None

NextHealth ==
    \/ Tick
    \/ PollOk
    \/ PollSleep
    \/ PollFail
    \/ GetHealth

SpecHealth == InitHealth /\ [][NextHealth]_vars

\* One merged_prev_stage_datasets call on every reward record, cache and
\* store within the bounds.
InitMerge ==
    /\ hk_in = EmptyDict /\ hk_out = None /\ hk_out2 = None /\ hk_pc = "idle"
    /\ now = 0 /\ last_polled = None /\ cache_data = None /\ poller_pc = "idle"
    /\ health = None /\ poll_done = None
    /\ mg_rewards \in RewardRecords
    /\ mg_cache \in OutputRecordsOf(MergeSelf)
    /\ mg_store \in [MergeNodes -> UNION { OutputRecordsOf(k) : k \in MergeNodes }]
    /\ \A k \in MergeNodes : mg_store[k] \in OutputRecordsOf(k)
    /\ mg_limit \in 0..MaxLimit
    /\ mg_score = None /\ mg_result = None /\ mg_winners = None /\ mg_pc = "start"
    /\ dht_pointer = None /\ dht_rewards = None /\ dht_outputs = None
    /\ dht_leaderboard = None
    /\ proc = None /\ stage_data = None /\ max_steps = 0 /\ faults = 0 /\ hist = None
    /\ ledger = None

NextMerge ==
    \/ MergeCall
    \/ \E e \in DatasetErrors : MergeCallFail(e)

SpecMerge == InitMerge /\ [][NextMerge]_vars

\* One round_winners call on every reward record, store and scoring within
\* the bounds.
InitWinners ==
    /\ hk_in = EmptyDict /\ hk_out = None /\ hk_out2 = None /\ hk_pc = "idle"
    /\ now = 0 /\ last_polled = None /\ cache_data = None /\ poller_pc = "idle"
    /\ health = None /\ poll_done = None
    /\ mg_rewards \in RewardRecords
    /\ mg_cache \in OutputRecordsOf(MergeSelf)
    /\ mg_store \in [MergeNodes -> UNION { OutputRecordsOf(k) : k \in MergeNodes }]
    /\ \A k \in MergeNodes : mg_store[k] \in OutputRecordsOf(k)
    /\ mg_limit = dht_sample_limit
    /\ mg_score \in [MergeNodes -> 0..1]
    /\ mg_result = None /\ mg_winners = None /\ mg_pc = "start"
    /\ dht_pointer = None /\ dht_rewards = None /\ dht_outputs = None
    /\ dht_leaderboard = None
    /\ proc = None /\ stage_data = None /\ max_steps = 0 /\ faults = 0 /\ hist = None
    /\ ledger = None

NextWinners == RoundWinnersCall

SpecWinners == InitWinners /\ [][NextWinners]_vars

(***************************************************************************)
(* Properties of the leaderboard.                                          *)
(***************************************************************************)
\* C1: every value the coordinator writes to the leaderboard record holds
\* exactly the (node, reward) pairs of the reward record it read in that
\* publish_leaderboard call, in descending order of reward, ties in
\* descending order of node; publishing again from that snapshot, in
\* whatever order its keys are listed, writes the same value.
LeaderboardWriteSorted ==
    hist.last_publish # None =>
        LET lp == TheValue(hist.last_publish)
            v == lp.value
        IN /\ Len(v) = Len(lp.snapshot)
           /\ { v[i] : i \in 1..Len(v) } = { lp.snapshot[i] : i \in 1..Len(lp.snapshot) }
           /\ \A i, j \in 1..Len(v) :
                i < j => \/ v[i][2] > v[j][2]
                         \/ (v[i][2] = v[j][2] /\ v[i][1] > v[j][1])
           /\ \A d \in KeyOrders(lp.snapshot) : publish_leaderboard(d) = Some(v)
           /\ dht_leaderboard[lp.rs] = v

\* C1: a leaderboard written from a snapshot in which two nodes tie.
LeaderboardTieWitness ==
    /\ hist.last_publish # None
    /\ Len(TheValue(hist.last_publish).value) = 2
    /\ TheValue(hist.last_publish).value[1][2] = TheValue(hist.last_publish).value[2][2]
    /\ TheValue(hist.last_publish).value[1][1] > TheValue(hist.last_publish).value[2][1]

\* C2 as stated: a leaderboard record that is present is the descending
\* sort by (reward, node) of the reward record the store holds at that
\* moment.
LeaderboardIsSortOfCurrentRewards ==
    \A rs \in RS :
        dht_leaderboard[rs] # << >> =>
            dht_leaderboard[rs] = leaderboard_sorted(dht_rewards[rs])

\* C2 as amended: a leaderboard record that is present is the descending
\* sort by (reward, node) of the reward record the coordinator read in its
\* latest publish_leaderboard call for that round and stage, and every node
\* it lists is a key of the reward record the store holds.
LeaderboardIsSortOfSnapshot ==
    \A rs \in RS :
        dht_leaderboard[rs] # << >> =>
            /\ hist.lb_source[rs] # EmptyDict
            /\ dht_leaderboard[rs] = leaderboard_sorted(hist.lb_source[rs])
            /\ \A i, j \in 1..Len(dht_leaderboard[rs]) :
                 i < j => leaderboard_key_less(dht_leaderboard[rs][j], dht_leaderboard[rs][i])
            /\ \A i \in 1..Len(dht_leaderboard[rs]) :
                 DictHas(dht_rewards[rs], dht_leaderboard[rs][i][1])

\* C2: a leaderboard that is the sort of the snapshot it was made from and
\* not of the reward record a follower has written to since.
LeaderboardBehindWitness ==
    \E rs \in RS :
        /\ dht_leaderboard[rs] # << >>
        /\ dht_leaderboard[rs] = leaderboard_sorted(hist.lb_source[rs])
        /\ dht_leaderboard[rs] # leaderboard_sorted(dht_rewards[rs])
        /\ Len(dht_rewards[rs]) = 2

(***************************************************************************)
(* Properties of the merge inside a run.                                   *)
(***************************************************************************)
\* C3 as stated: in every merged_prev_stage_datasets call in which the
\* calling node's own outputs of the previous stage are available, in its
\* cache or in the store, each of them is among the items grouped, also
\* when the poll of the reward record ended empty.
OwnOutputsAlwaysMerged ==
    \A n \in Nodes :
        hist.last_merge[n] # None =>
            LET lm == TheValue(hist.last_merge[n]) IN
            lm.own # None =>
                /\ DictHas(lm.result.items, n)
                /\ \A i \in 1..Len(TheValue(lm.own)) :
                     \E j \in 1..Len(DictGet(lm.result.items, n)) :
                         DictGet(lm.result.items, n)[j] = TheValue(lm.own)[i]

(***************************************************************************)
(* Properties of follower_train and train().                               *)
(***************************************************************************)
\* The stages node n entered in round r, in order.
StagesRan(n, r) ==
    LET rr == SelectSeq(hist.ran[n], LAMBDA e : e[1] = r)
    IN [i \in 1..Len(rr) |-> rr[i][2]]

\* <<a, a+1, ..., b>>
StageRange(a, b) == [i \in 1..(b - a + 1) |-> a + i - 1]

IsPrefix(p, q) == Len(p) <= Len(q) /\ \A i \in 1..Len(p) : p[i] = q[i]

\* C5: a follower that joined round r at stage k > 0 has run stages k.. of
\* the round in order and none of 0..k-1, unless a dataset-generation error
\* was raised in the round, and then it has run the round once more from
\* stage 0; a round in done_rounds was run to its last stage and no stage of
\* it is run after that.
FollowerRunsFromJoinStage ==
    \A n \in Nodes : \A x \in 1..Len(hist.joined[n]) :
        LET r == hist.joined[n][x][1]
            k == hist.joined[n][x][2]
            N == stage_data.num_stages
            ran == StagesRan(n, r)
            whole == StageRange(k, N - 1)
            restarts == { StageRange(k, j) \o StageRange(0, N - 1) : j \in k..(N - 1) }
        IN /\ \A y \in 1..Len(hist.joined[n]) : hist.joined[n][y][1] = r => y = x
           /\ IF r \in hist.dge[n] /\ k > 0
              THEN IsPrefix(ran, whole) \/ \E w \in restarts : IsPrefix(ran, w)
              ELSE IsPrefix(ran, whole)
           /\ r \in proc[n].done_rounds =>
                IF r \in hist.dge[n] THEN k > 0 /\ ran \in restarts ELSE ran = whole

\* C5: a follower joined a round at a stage > 0, restarted it from stage 0
\* after a dataset-generation error, finished it and then read the pointer
\* of the finished round again.
FollowerLateJoinWitness ==
    \E n \in Nodes : \E x \in 1..Len(hist.joined[n]) :
        /\ hist.joined[n][x][2] > 0
        /\ hist.joined[n][x][1] \in hist.dge[n]
        /\ hist.joined[n][x][1] \in proc[n].done_rounds
        /\ proc[n].check_backoff > check_interval
        /\ proc[n].pc = "fo_loop"

\* C9 as stated: when a stage's dataset builder raised a ValueError in the
\* coordinator's run, train() ended by raising it.
CoordinatorTrainRaises ==
    \A n \in Nodes :
        (/\ is_coordinator(n)
         /\ proc[n].pc = "done"
         /\ \E i \in 1..Len(hist.exc[n]) : hist.exc[n][i] = "ValueError")
        => proc[n].outcome = "raised"

\* The records of the store that node n writes.
RecordsOf(n) ==
    <<[k \in { kk \in Nodes \X RS : kk[1] = n } |-> dht_outputs[k]],
      [rs \in RS |-> IF DictHas(dht_rewards[rs], n)
                     THEN Some(DictGet(dht_rewards[rs], n)) ELSE None],
      IF is_coordinator(n) THEN <<dht_pointer, dht_leaderboard>> ELSE << >>>>

CollectedTriples(prev_items) ==
    UNION { { <<prev_items[i][1], prev_items[i][2][j][1], prev_items[i][2][j][2]>> :
                j \in 1..Len(prev_items[i][2]) } : i \in 1..Len(prev_items) }

\* The first key of the reward record that is not the caller, if any.
FirstPeer(prev_rewards) ==
    LET is == { i \in 1..Len(prev_rewards) : prev_rewards[i][1] # MergeSelf }
    IN IF is = {} THEN None
       ELSE Some(prev_rewards[CHOOSE i \in is : \A j \in is : i <= j][1])

\* C4: merge_fn is called once per distinct question among the collected
\* items, and the map it gets for a question has exactly one entry per
\* collected node with an output for that question, keyed by node: when the
\* caller A and a peer B of the reward record both have an output for Q, the
\* map for Q holds both payloads.
MergeFnOncePerQuestion ==
    mg_pc = "merged" =>
        LET r == TheValue(mg_result)
            triples == CollectedTriples(r.items)
            qs == { t[2] : t \in triples }
            own == MergeOwn(mg_cache, mg_store)
            b == FirstPeer(mg_rewards)
        IN /\ Len(r.merge_calls) = Cardinality(qs)
           /\ Len(r.merge_qs) = Len(r.merge_calls)
           /\ { r.merge_qs[i] : i \in 1..Len(r.merge_qs) } = qs
           /\ \A i \in 1..Len(r.merge_calls) :
                LET m == r.merge_calls[i] IN
                /\ IsDict(m)
                /\ { <<m[j][1], m[j][2]>> : j \in 1..Len(m) } =
                   { <<t[1], t[3]>> : t \in { u \in triples : u[2] = r.merge_qs[i] } }
           /\ (b # None /\ own # None /\ mg_limit >= NumRawIds - 1) =>
                \A x \in 1..Len(TheValue(own)), y \in 1..Len(mg_store[TheValue(b)]) :
                    LET q == TheValue(own)[x][1] IN
                    md5_hexdigest(mg_store[TheValue(b)][y][1]) = q =>
                        \E i \in 1..Len(r.merge_calls) :
                            /\ r.merge_qs[i] = q
                            /\ DictHas(r.merge_calls[i], MergeSelf)
                            /\ DictGet(r.merge_calls[i], MergeSelf) = TheValue(own)[x][2]
                            /\ DictHas(r.merge_calls[i], TheValue(b))
                            /\ DictGet(r.merge_calls[i], TheValue(b)) =
                                   mg_store[TheValue(b)][y][2]

\* C4: a merge in which the caller and a peer both answered one question.
MergeFnTwoNodesWitness ==
    /\ mg_pc = "merged"
    /\ \E i \in 1..Len(TheValue(mg_result).merge_calls) :
         /\ Len(TheValue(mg_result).merge_calls[i]) >= 2
         /\ DictHas(TheValue(mg_result).merge_calls[i], MergeSelf)

\* The nodes with at least one collected final-stage output.
Candidates == { t[1] : t \in CollectedTriples(TheValue(mg_result).items) }

\* The total round_winners recomputes for a node: one score per output.
RecomputedTotal(n) ==
    mg_score[n] * Cardinality({ t \in CollectedTriples(TheValue(mg_result).items) : t[1] = n })

\* C6: round_winners(limit) returns at most limit distinct nodes, ordered by
\* descending recomputed total; every node with a collected final-stage
\* output is a candidate, also with total 0; a single contributing node is
\* the sole winner.
RoundWinnersTopLimit ==
    mg_pc = "winners" =>
        LET w == TheValue(mg_winners).winners
            limit == TheValue(mg_winners).limit
        IN /\ Len(w) = Min(limit, Cardinality(Candidates))
           /\ \A i, j \in 1..Len(w) : w[i] = w[j] => i = j
           /\ \A i \in 1..Len(w) : w[i] \in Candidates
           /\ \A i, j \in 1..Len(w) : i < j => RecomputedTotal(w[i]) >= RecomputedTotal(w[j])
           /\ \A n \in Candidates \ { w[i] : i \in 1..Len(w) } :
                \A i \in 1..Len(w) : RecomputedTotal(w[i]) >= RecomputedTotal(n)
           /\ \A n \in MergeNodes : (Candidates = {n} /\ limit >= 1) => w = <<n>>

\* C6: a single contributing node whose total is 0 is the sole winner.
RoundWinnersSingleZeroWitness ==
    /\ mg_pc = "winners"
    /\ \E n \in MergeNodes :
         /\ Candidates = {n}
         /\ RecomputedTotal(n) = 0
         /\ TheValue(mg_winners).limit >= 1
         /\ TheValue(mg_winners).winners = <<n>>

(***************************************************************************)
(* Properties of the health endpoint.                                      *)
(***************************************************************************)
\* C7: a health response is an error whenever no poll had completed or the
\* last completed poll was more than 5 minutes before the request, whatever
\* data the cache held, and is OK only when the last completed poll was at
\* most 5 minutes old.
HealthFollowsLastPoll ==
    health # None =>
        LET h == TheValue(health)
            stale == h.polled = None \/ h.at - TheValue(h.polled) > StaleMinutes
        IN /\ stale => h.status = "error"
           /\ h.status = "OK" => ~stale
           /\ h.status \in {"OK", "error"}

\* C7: an error response while the cache holds data of a completed poll that
\* is more than 5 minutes old.
HealthStaleWitness ==
    /\ health # None
    /\ TheValue(health).status = "error"
    /\ TheValue(health).polled # None
    /\ TheValue(health).data # None
    /\ TheValue(health).at - TheValue(TheValue(health).polled) > StaleMinutes

(***************************************************************************)
(* Properties of hash_keys.                                                *)
(***************************************************************************)
\* The key hash_keys is to store an entry of key k under.
ExpectedKey(k) == IF k.len = HashWidth THEN k ELSE md5_hexdigest(k)

\* C8: hash_keys(hash_keys(m)) = hash_keys(m); a key of length 32 is kept
\* and a key of any other length is replaced by its digest.
HashKeysIdempotent ==
    /\ hk_pc \in {"once", "twice"} =>
         /\ DictKeys(hk_out) = { ExpectedKey(k) : k \in DictKeys(hk_in) }
         /\ IsDict(hk_out)
         /\ \A k \in DictKeys(hk_out) : k.len = HashWidth
    /\ hk_pc = "twice" => hk_out2 = hk_out

\* C8: hash_keys ran twice on a map with a raw key and a 32-character key.
HashKeysMixedWitness ==
    /\ hk_pc = "twice"
    /\ \E k \in DictKeys(hk_in) : k.len = HashWidth
    /\ \E k \in DictKeys(hk_in) : k.len # HashWidth
    /\ hk_out2 = hk_out

(***************************************************************************)
(* Properties of a whole run of the coordinator and a follower.            *)
(***************************************************************************)
\* Both train() calls returned, and nothing was raised or timed out.
RunsCompleted ==
    \A n \in Nodes :
        /\ proc[n].pc = "done"
        /\ proc[n].outcome = "returned"
        /\ hist.exc[n] = << >>

\* C11 as stated: when the coordinator and a follower, both started with
\* train() on one store, have run to completion with max_steps steps per
\* stage, the reward record of every round and stage of the run holds
\* exactly one entry per node, the sum of that node's step rewards: 2 per
\* step for the coordinator, 1 per step for the follower.
RewardRecordsCompleteAfterRun ==
    RunsCompleted =>
        \A r \in 0..(stage_data.max_rounds - 1), s \in 0..(stage_data.num_stages - 1) :
            /\ Len(dht_rewards[<<r, s>>]) = Cardinality(Nodes)
            /\ \A n \in Nodes :
                 /\ DictHas(dht_rewards[<<r, s>>], n)
                 /\ DictGet(dht_rewards[<<r, s>>], n) = max_steps * StepReward(n)

(***************************************************************************)
(* Properties of the output record.                                        *)
(***************************************************************************)
\* The questions of the steps of a stage.
StepQuestions == { Question(j) : j \in 1..MaxSteps }

\* C12 as stated: every subkey written to an output record is the
\* fixed-length hash of the question, so that indexing the record read from
\* the store by the hash of a question gives that question's output.
OutputSubkeysAreHashes ==
    \A k \in Nodes \X RS :
        \A i \in 1..Len(dht_outputs[k]) :
            /\ dht_outputs[k][i][1].len = HashWidth
            /\ \E q \in StepQuestions : dht_outputs[k][i][1] = md5_hexdigest(q)

(***************************************************************************)
(* Properties of the round/stage pointer.                                  *)
(***************************************************************************)
LexLess(a, b) == a[1] < b[1] \/ (a[1] = b[1] /\ a[2] < b[2])

\* The pairs (r, i) of a run with max_rounds rounds of num_stages stages, in
\* lexicographic order.
AllStagesInOrder ==
    [i \in 1..(stage_data.max_rounds * stage_data.num_stages) |->
        <<(i - 1) \div stage_data.num_stages, (i - 1) % stage_data.num_stages>>]

\* The pointer values published so far, in the order of publication.
PublishedValues == [i \in 1..Len(hist.published) |-> hist.published[i][3]]

\* Node n is between the head of a stage and the end of its training.
InStage(n) ==
    proc[n].pc \in {"ts_data", "ts_merge", "tr_step", "cl_reward", "lb_read", "lb_write"}

\* C13: a coordinator running coordinator_train without timeout or error
\* publishes the pointer (r, i) exactly once for every round r below
\* max_rounds and every stage i, in strictly increasing lexicographic
\* order, each publication before the dataset builder of that stage is
\* called; when it returns the pointer is (max_rounds - 1, N - 1), and no
\* round >= max_rounds is ever published.
CoordinatorPublishesEveryStageInOrder ==
    \A n \in Nodes :
        (is_coordinator(n) /\ hist.exc[n] = << >> /\ proc[n].outcome # "timed_out") =>
            /\ \A i, j \in 1..Len(PublishedValues) :
                 i < j => LexLess(PublishedValues[i], PublishedValues[j])
            /\ \A i \in 1..Len(PublishedValues) :
                 /\ PublishedValues[i][1] < stage_data.max_rounds
                 /\ PublishedValues[i][2] < stage_data.num_stages
            /\ IsPrefix(PublishedValues, AllStagesInOrder)
            /\ InStage(n) =>
                 /\ PublishedValues # << >>
                 /\ PublishedValues[Len(PublishedValues)]
                      = <<proc[n].round_num, proc[n].stage_num>>
            /\ proc[n].outcome = "returned" =>
                 /\ PublishedValues = AllStagesInOrder
                 /\ dht_pointer = Some(<<stage_data.max_rounds - 1,
                                          stage_data.num_stages - 1>>)

\* The coordinator returned from a run of two rounds or more of two stages
\* or more, every pair published.
CoordinatorPublishedAllWitness ==
    \E n \in Nodes :
        /\ is_coordinator(n)
        /\ hist.exc[n] = << >>
        /\ proc[n].outcome = "returned"
        /\ stage_data.max_rounds >= 2
        /\ stage_data.num_stages >= 2
        /\ Len(hist.published) = stage_data.max_rounds * stage_data.num_stages

\* C14: the pointer is written only by a node that runs a stage in the
\* coordinator role: every write is made by train_stages called from
\* coordinator_train, none by a stage run from follower_train or
\* catch_up_train, and the pointer in the store is always the value a
\* coordinator published last.
PointerWrittenByCoordinatorOnly ==
    /\ \A i \in 1..Len(hist.published) :
         /\ is_coordinator(hist.published[i][1])
         /\ hist.published[i][2] = "coordinator"
    /\ dht_pointer = IF hist.published = << >> THEN None
                     ELSE Some(PublishedValues[Len(PublishedValues)])

\* A follower has entered a stage of a round the coordinator has left
\* behind: the pointer is the coordinator's, ahead of the follower's stage.
FollowerInStagePointerAheadWitness ==
    \E n \in Nodes :
        /\ ~is_coordinator(n)
        /\ InStage(n)
        /\ dht_pointer # None
        /\ LexLess(<<proc[n].round_num, proc[n].stage_num>>, TheValue(dht_pointer))

(***************************************************************************)
(* Properties of the collection of merged_prev_stage_datasets.             *)
(***************************************************************************)
\* The keys of the reward record other than the caller's, in record order.
ListedPeers == SelectSeq([i \in 1..Len(mg_rewards) |-> mg_rewards[i][1]],
                         LAMBDA k : k # MergeSelf)

\* The outputs get_outputs gives for listed peer number i, none when it
\* raises.
PeerOutputsAt(i) ==
    IF MergePeers(mg_store)[ListedPeers[i]] = None THEN << >>
    ELSE TheValue(MergePeers(mg_store)[ListedPeers[i]])

\* The items of the first i listed peers, as <<node_key, item>>, in order.
RECURSIVE PeerItemsUpTo(_)
PeerItemsUpTo(i) ==
    IF i = 0 THEN << >>
    ELSE PeerItemsUpTo(i - 1)
           \o [j \in 1..Len(PeerOutputsAt(i)) |-> <<ListedPeers[i], PeerOutputsAt(i)[j]>>]

PeerItemsAvailable == PeerItemsUpTo(Len(ListedPeers))

\* The peer items of prev_items, as <<node_key, item>>, in order.
RECURSIVE FlattenPeers(_, _)
FlattenPeers(prev_items, i) ==
    IF i = 0 THEN << >>
    ELSE FlattenPeers(prev_items, i - 1)
           \o (IF prev_items[i][1] = MergeSelf THEN << >>
               ELSE [j \in 1..Len(prev_items[i][2]) |->
                        <<prev_items[i][1], prev_items[i][2][j]>>])

PeerItemsCollected ==
    FlattenPeers(TheValue(mg_result).items, Len(TheValue(mg_result).items))

\* The questions of prev_items.
QuestionsOf(prev_items) == { t[2] : t \in CollectedTriples(prev_items) }

\* C15: merged_prev_stage_datasets never fails because data is missing: with
\* the reward record empty at wait_timeout, with the caller's own stage s-1
\* outputs missing, or with a contributor listed in the reward record that
\* has no output record, the call goes on to merge_fn and samples_fn with
\* the items it collected, possibly none; it fails only when merge_fn or
\* samples_fn raise.
MergeNeverFailsOnMissingData ==
    mg_pc \in {"merged", "raised"} =>
        LET res == TheValue(mg_result) IN
        /\ mg_pc = "raised" => /\ res.error # None
                               /\ TheValue(res.error)[1] = "merge_fn"
        /\ mg_pc = "merged" => res.error = None
        /\ { res.merge_qs[i] : i \in 1..Len(res.merge_qs) } = QuestionsOf(res.items)
        /\ Len(res.merge_calls) = Cardinality(QuestionsOf(res.items))
        /\ MergeOwn(mg_cache, mg_store) # None => DictHas(res.items, MergeSelf)
        /\ mg_rewards = EmptyDict => \A k \in DictKeys(res.items) : k = MergeSelf

\* The call returned with nothing collected: the caller has no outputs and
\* a contributor listed in the reward record has no output record.
MergeNothingCollectedWitness ==
    /\ mg_pc = "merged"
    /\ MergeOwn(mg_cache, mg_store) = None
    /\ Len(ListedPeers) > 0
    /\ \A i \in 1..Len(ListedPeers) : MergePeers(mg_store)[ListedPeers[i]] = None
    /\ TheValue(mg_result).items = EmptyDict
    /\ TheValue(mg_result).merge_calls = << >>

\* C16: the peer items collected are the first min(available,
\* dht_sample_limit + 1) items of the peers listed in the reward record, in
\* record order: the collection stops right after the item that makes the
\* count exceed the limit, that item included, no later peer is fetched, and
\* the caller's own items do not count toward the cap.
PeerItemsCappedOnePastLimit ==
    mg_pc = "merged" =>
        LET res == TheValue(mg_result)
            n == Min(Len(PeerItemsAvailable), mg_limit + 1)
        IN /\ res.count = n
           /\ PeerItemsCollected = SubSeq(PeerItemsAvailable, 1, n)
           /\ IsPrefix(res.fetched, ListedPeers)
           /\ \A i \in 1..Len(ListedPeers) :
                (i <= Len(res.fetched)) <=> (Len(PeerItemsUpTo(i - 1)) <= mg_limit)
           /\ MergeOwn(mg_cache, mg_store) # None =>
                DictGet(res.items, MergeSelf) = TheValue(MergeOwn(mg_cache, mg_store))

\* The cap cut the collection inside a peer's outputs: the caller has two
\* items of its own, the limit is exceeded by the first peer's first item
\* and the second listed peer is never fetched.
PeerItemsCutWitness ==
    /\ mg_pc = "merged"
    /\ Len(PeerItemsAvailable) > mg_limit + 1
    /\ MergeOwn(mg_cache, mg_store) # None
    /\ Len(TheValue(MergeOwn(mg_cache, mg_store))) = 2
    /\ Len(ListedPeers) = 2
    /\ Len(TheValue(mg_result).fetched) = 1
    /\ Len(PeerOutputsAt(1)) = 2
    /\ Len(PeerItemsCollected) = 1

(***************************************************************************)
(* Properties of the catch-up sweep and of the testnet variant.            *)
(***************************************************************************)
\* Node n has read its first pointer and is past catch_up_train.
SweepOver(n) ==
    /\ hist.first_round[n] # None
    /\ proc[n].pc # "start"
    /\ proc[n].caller # "catch_up"

\* The rounds the sweep of node n called train_stages for, in order.
SweptRounds(n) == [i \in 1..Len(hist.swept[n]) |-> hist.swept[n][i][1]]

\* C17 as stated: a follower whose first observed pointer reports a round
\* c > 0 runs every round 0..c-1 from stage 0, in increasing order, before
\* it joins the live round.
CatchUpRunsEveryEarlierRound ==
    \A n \in Nodes :
        (SweepOver(n) /\ hist.exc[n] = << >>) =>
            LET c == TheValue(hist.first_round[n]) IN
            /\ SweptRounds(n) = [i \in 1..c |-> i - 1]
            /\ \A r \in 0..(c - 1) :
                 /\ StagesRan(n, r) # << >>
                 /\ StagesRan(n, r)[1] = 0

\* C18 as stated: when the replay of a round of the catch-up sweep fails,
\* with a dataset-generation error or any other exception, that round is
\* skipped and the sweep goes on with the next round.
SweepGoesOnAfterFailure ==
    \A n \in Nodes :
        SweepOver(n) =>
            \A i \in 1..Len(hist.swept[n]) :
                (/\ hist.swept[n][i][2] # "ok"
                 /\ hist.swept[n][i][1] + 1 < TheValue(hist.first_round[n])) =>
                    \E j \in 1..Len(hist.swept[n]) :
                        /\ j > i
                        /\ hist.swept[n][j][1] = hist.swept[n][i][1] + 1

\* C19 as stated: the winners of a round are computed and submitted to the
\* ledger exactly when a node acting as coordinator has completed the last
\* stage of a round; a follower, live or in catch-up, never submits.
WinnersSubmittedByCoordinatorOnly ==
    /\ \A i \in 1..Len(hist.submitted) : hist.submitted[i][2] = "coordinator"
    /\ ledger # None => Len(ledger.winners) = Len(hist.submitted)

\* C20 as stated: a failed read of the pointer never ends a follower's run:
\* the follower waits and reads again, so a follower started before the
\* coordinator's first publication is still running, or has joined.
FailedPointerReadNeverEndsRun ==
    \A n \in Nodes :
        ~is_coordinator(n) =>
            ~(/\ proc[n].pc = "done"
              /\ hist.ran[n] = << >>
              /\ hist.exc[n] = <<"ValueError">>)

(***************************************************************************)
(* Properties of train_stages and train_and_save.                          *)
(***************************************************************************)
\* Node n is in the training engine.
InEngine(n) == proc[n].pc \in {"tr_step", "cl_reward", "lb_read", "lb_write"}

\* Node n's step leaves its train_stages call running.
SameCall(n) == proc'[n].runs = proc[n].runs /\ proc'[n].pc # "done"

\* Node n's step raises an exception.
Raises(n) == hist'.exc[n] # hist.exc[n]

\* C21: within one train_stages(round, k) call the stages k, k+1, ..., N-1
\* are run in increasing order, the dataset builder of each stage is called
\* exactly once, and the next stage (its pointer publication and its
\* dataset builder) starts only after the training engine has completed the
\* stage successfully; when a stage ends in error no later stage of the
\* call is started.
StagesRunInOrder ==
    [][\A n \in Nodes :
          \* the stage number moves by one, after the last step of the engine
          /\ (SameCall(n) /\ proc'[n].stage_num # proc[n].stage_num) =>
                /\ proc'[n].stage_num = proc[n].stage_num + 1
                /\ proc[n].pc = "tr_step"
                /\ proc[n].step = max_steps
                /\ ~Raises(n)
                /\ proc'[n].pc = "ts_stage"
          \* a call starts at the stage it is given
          /\ proc'[n].runs # proc[n].runs => proc'[n].pc = "ts_stage"
          \* the stage starts, pointer and dataset builder, at the loop head
          \* and nowhere else, so once for every stage number of the call
          /\ (proc'[n].pc = "ts_data" /\ proc[n].pc # "ts_data") =>
                /\ proc[n].pc = "ts_stage"
                /\ SameCall(n)
                /\ proc'[n].stage_num = proc[n].stage_num
                /\ hist'.ran[n] = Append(hist.ran[n],
                                         <<proc[n].round_num, proc[n].stage_num>>)
          /\ hist'.ran[n] # hist.ran[n] => proc'[n].pc = "ts_data"
          /\ dht_pointer' # dht_pointer => \E m \in Nodes : proc'[m].pc = "ts_data"
                                                           /\ proc[m].pc = "ts_stage"
          \* the engine is entered from the dataset builder, or by a retry
          /\ (InEngine(n)' /\ ~InEngine(n)) => proc[n].pc \in {"ts_data", "ts_merge"}
          \* an error that ends the stage ends the call
          /\ (Raises(n) /\ proc[n].pc # "start" /\ proc[n].pc # "fo_loop") =>
                \/ ~SameCall(n)
                \/ /\ proc'[n].pc = "tr_step"
                   /\ proc'[n].step = 0
                   /\ proc'[n].stage_num = proc[n].stage_num
                   /\ proc'[n].num_fails = proc[n].num_fails + 1]_vars

\* A follower that joined at stage 1 is in the engine of stage 2 of the same
\* call.
SecondStageOfCallWitness ==
    \E n \in Nodes :
        /\ proc[n].caller = "follower"
        /\ proc[n].join_stage = 1
        /\ proc[n].stage_num = 2
        /\ proc[n].pc = "tr_step"

\* The exception node n's step raises.
Raised(n) == hist'.exc[n][Len(hist'.exc[n])]

\* Node n's step ends the stage it is in with an error: the call is left,
\* for train()'s handler, for a new call or for the caller's loop.
StageEndsInError(n) ==
    /\ proc'[n].pc \in {"done", "ts_stage", "fo_loop"}
    /\ proc'[n].pc = "ts_stage" =>
          /\ proc'[n].runs = proc[n].runs + 1
          /\ proc'[n].stage_num = 0

\* C22: in train_and_save the engine is attempted at most MAX_TRAIN_FAILS
\* times for a stage; a new attempt is made only after a transient I/O
\* failure (BlockingIOError or EOFError), after cleanup; any other
\* exception propagates at once, without retry; when every attempt fails
\* transiently the stage ends with an error, it is not reported as
\* completed, and there is no further attempt.
TrainAndSaveRetriesTransientOnly ==
    [][\A n \in Nodes :
          /\ InEngine(n)' => proc'[n].num_fails < MAX_TRAIN_FAILS
          \* an attempt starts: the first one, or a retry
          /\ (InEngine(n)' /\ proc'[n].step = 0 /\ proc'[n].pc = "tr_step"
                /\ (proc[n].pc # "tr_step" \/ proc[n].step # 0)) =>
                \/ /\ proc[n].pc \in {"ts_data", "ts_merge"}
                   /\ proc'[n].num_fails = 0
                \/ /\ InEngine(n)
                   /\ Raises(n)
                   /\ Raised(n) = "retry"
                   /\ proc'[n].num_fails = proc[n].num_fails + 1
                   /\ proc'[n].round_cache = cleanup(proc[n].round_cache)
                   /\ proc'[n].stage_num = proc[n].stage_num
                   /\ proc'[n].runs = proc[n].runs
          \* the engine raises
          /\ (InEngine(n) /\ Raises(n)) =>
                \/ /\ Raised(n) = "retry"
                   /\ proc[n].num_fails + 1 < MAX_TRAIN_FAILS
                   /\ proc'[n].pc = "tr_step"
                   /\ proc'[n].step = 0
                \/ /\ Raised(n) = "UnboundLocalError"
                   /\ proc[n].num_fails + 1 = MAX_TRAIN_FAILS
                   /\ StageEndsInError(n)
                \/ /\ Raised(n) \in TrainErrors \ TransientErrors
                   /\ StageEndsInError(n)]_vars

\* Both attempts of a stage failed transiently: the first was retried, the
\* second ended the stage.
TrainAttemptsExhaustedWitness ==
    \E n \in Nodes :
        /\ hist.exc[n] = <<"retry", "UnboundLocalError">>
        /\ proc[n].num_fails = MAX_TRAIN_FAILS

(***************************************************************************)
(* Properties of the restart of a round in follower_train.                 *)
(***************************************************************************)
\* Node n's step raises a DatasetGenerationError in a train_stages call made
\* by the given caller.
RaisesDGE(n, caller) ==
    /\ Raises(n)
    /\ Raised(n) = "DatasetGenerationError"
    /\ proc[n].caller = caller

\* follower_train calls train_stages(round_num, 0, False) again.
RestartsRound(n) ==
    /\ proc'[n].caller = "follower_retry"
    /\ proc'[n].pc = "ts_stage"
    /\ proc'[n].stage_num = 0
    /\ proc'[n].round_num = proc[n].round_num
    /\ proc'[n].runs = proc[n].runs + 1
    /\ proc'[n].done_rounds = proc[n].done_rounds

\* The error leaves follower_train, the round not in done_rounds.
LeavesFollowerTrain(n) ==
    /\ proc'[n].pc = "done"
    /\ proc'[n].outcome = "swallowed"
    /\ proc[n].round_num \notin proc'[n].done_rounds

\* C23 as stated: in follower_train, when a dataset builder raises a
\* generation-class error at any stage other than stage 0 of the round
\* being run, the follower restarts the round from stage 0, once; when the
\* error is raised at stage 0, or again during the restarted run, it
\* propagates out of follower_train and the round is not marked done.
RestartWhenRaisedPastStageZero ==
    [][\A n \in Nodes :
          /\ (RaisesDGE(n, "follower") /\ proc[n].stage_num > 0) => RestartsRound(n)
          /\ (RaisesDGE(n, "follower") /\ proc[n].stage_num = 0) => LeavesFollowerTrain(n)
          /\ RaisesDGE(n, "follower_retry") => LeavesFollowerTrain(n)]_vars

\* C23: in follower_train, when a dataset builder raises a generation-class
\* error in a round the follower joined at a stage other than stage 0, the
\* follower restarts the round from stage 0, once; when the round was joined
\* at stage 0, whatever stage the error is raised at, or the error is raised
\* again during the restarted run, it propagates out of follower_train and
\* the round is not marked done.
RestartWhenJoinedPastStageZero ==
    [][\A n \in Nodes :
          /\ (RaisesDGE(n, "follower") /\ proc[n].join_stage > 0) => RestartsRound(n)
          /\ (RaisesDGE(n, "follower") /\ proc[n].join_stage = 0) => LeavesFollowerTrain(n)
          /\ RaisesDGE(n, "follower_retry") => LeavesFollowerTrain(n)
          /\ proc'[n].caller = "follower_retry" =>
                \/ proc[n].caller = "follower_retry"
                \/ RaisesDGE(n, "follower") /\ proc[n].join_stage > 0]_vars

\* The restarted run raised the error again and train() ended.
RestartFailedAgainWitness ==
    \E n \in Nodes :
        /\ hist.exc[n] = <<"DatasetGenerationError", "DatasetGenerationError">>
        /\ proc[n].caller = "follower_retry"
        /\ proc[n].join_stage > 0
        /\ proc[n].pc = "done"
        /\ proc[n].round_num \notin proc[n].done_rounds

(***************************************************************************)
(* Properties of the follower's check back-off.                            *)
(***************************************************************************)
\* Node n, in the loop of follower_train, reads a pointer whose round is in
\* done_rounds, and takes the branch of that case.
WaitsOnDoneRound(n) ==
    /\ proc[n].pc = "fo_loop"
    /\ self_get_round_and_stage(n) # None
    /\ TheValue(self_get_round_and_stage(n))[1] \in proc[n].done_rounds
    /\ proc'[n] # proc[n]
    /\ faults' = faults
    /\ hist' = hist
    /\ proc'[n].outcome # "timed_out"

\* Node n adds a round to done_rounds.
MarksRoundDone(n) ==
    proc'[n].done_rounds # proc[n].done_rounds /\ proc'[n].done_rounds # {}

\* C24: the follower's back-off always lies between check_interval and
\* max_check_interval; each time the pointer reports a round of done_rounds
\* it becomes min(2 * backoff, max_check_interval); each time a round is
\* added to done_rounds it is check_interval again.
BackoffBoundedDoubledAndReset ==
    /\ [](\A n \in Nodes :
             /\ check_interval <= proc[n].check_backoff
             /\ proc[n].check_backoff <= max_check_interval)
    /\ [][\A n \in Nodes :
             /\ WaitsOnDoneRound(n) =>
                   proc'[n].check_backoff =
                       IF 2 * proc[n].check_backoff < max_check_interval
                       THEN 2 * proc[n].check_backoff ELSE max_check_interval
             /\ MarksRoundDone(n) => proc'[n].check_backoff = check_interval
             /\ proc'[n].check_backoff # proc[n].check_backoff =>
                   WaitsOnDoneRound(n) \/ MarksRoundDone(n)]_vars

\* A follower whose back-off has reached max_check_interval goes on waiting.
BackoffAtMaximumWitness ==
    \E n \in Nodes :
        /\ proc[n].pc = "fo_loop"
        /\ proc[n].check_backoff = max_check_interval
        /\ proc[n].done_rounds # {}

(***************************************************************************)
(* Termination of follower_train.                                          *)
(***************************************************************************)
\* Node n is in follower_train, at the test of its loop.
AtFollowerLoop(n) ==
    proc[n].pc = "fo_loop"

\* Node n leaves follower_train by its return statement.
FollowerReturns(n) ==
    /\ proc[n].caller \in {"follower", "follower_retry"} \/ AtFollowerLoop(n)
    /\ proc[n].pc # "done"
    /\ proc'[n].pc = "done"
    /\ proc'[n].outcome = "returned"

\* Node n leaves follower_train because the test of its loop fails.
FollowerTimesOut(n) ==
    /\ proc[n].caller \in {"follower", "follower_retry"} \/ AtFollowerLoop(n)
    /\ proc[n].pc # "done"
    /\ proc'[n].pc = "done"
    /\ proc'[n].outcome = "timed_out"

\* The last round is the round node n read from the pointer, and is done.
LastRoundDone(n) ==
    /\ proc'[n].round_num = stage_data.max_rounds - 1
    /\ proc'[n].round_num \in proc'[n].done_rounds

\* C25: follower_train terminates; it returns as soon as the round read
\* from the pointer is max_rounds - 1 and is in done_rounds, and otherwise
\* leaves its loop at the first test of the loop after train_timeout has
\* elapsed; it does not return before one of the two holds.
FollowerTrainTerminates ==
    /\ \A n \in Nodes : AtFollowerLoop(n) ~> (proc[n].pc = "done")
    /\ [](\A n \in Nodes :
             AtFollowerLoop(n) => (stage_data.max_rounds - 1) \notin proc[n].done_rounds)
    /\ [][\A n \in Nodes :
             /\ FollowerReturns(n) => LastRoundDone(n)
             /\ FollowerTimesOut(n) => AtFollowerLoop(n)]_vars

\* A follower whose coordinator has stopped before the last round left the
\* loop on the time-out, after waiting with the longest back-off.
FollowerTimedOutWitness ==
    \E n \in Nodes :
        /\ proc[n].pc = "done"
        /\ proc[n].outcome = "timed_out"
        /\ proc[n].check_backoff = max_check_interval
        /\ proc[n].done_rounds # {}

(***************************************************************************)
(* Properties of the reward totals.                                        *)
(***************************************************************************)
\* The step stores a value under n in the reward record of rs.
StoresReward(n, rs) ==
    /\ proc[n].pc = "cl_reward"
    /\ rs = <<proc[n].round_num, proc[n].stage_num>>
    /\ proc'[n] # proc[n]
    /\ ~Raises(n)

CallStartStage(n) ==
    IF proc[n].caller = "follower" THEN follower_join_stage(proc[n].join_stage) ELSE 0

\* The outputs node n has in its cache for the stage before the one it is in.
CacheOfStageBefore(n) ==
    proc[n].round_cache[<<proc[n].round_num, proc[n].stage_num - 1>>]

\* C27 as stated: the cache is purged after each stage and on every
\* error-driven restart; when stage i+1 of a round starts, the cache holds
\* no entry the node wrote during stage i.
CachePurgedAfterEachStage ==
    \A n \in Nodes :
        (proc[n].pc = "ts_data" /\ proc[n].stage_num > 0) => CacheOfStageBefore(n) = EmptyDict

\* Node n's step puts one output into the cache of the stage it is in.
PutsStageOutput(n) ==
    /\ proc[n].pc = "tr_step"
    /\ proc'[n].pc = "cl_reward"
    /\ \A rs \in RS :
          IF rs = <<proc[n].round_num, proc[n].stage_num>>
          THEN proc'[n].round_cache[rs] # EmptyDict
          ELSE proc'[n].round_cache[rs] = proc[n].round_cache[rs]

\* Node n's train_stages call has run its last stage.
LastStageOver(n) ==
    /\ proc[n].pc = "ts_stage"
    /\ proc[n].stage_num = stage_data.num_stages
    /\ proc'[n] # proc[n]

\* Node n's step raises a transient error in train_and_save.
RaisesTransient(n) ==
    Raises(n) /\ Raised(n) \in {"retry", "UnboundLocalError"}

\* Node n's engine returns: the stage is complete.
StageCompletes(n) ==
    /\ proc[n].pc = "tr_step"
    /\ proc'[n].pc = "ts_stage"
    /\ ~Raises(n)

\* C27: the cache is purged when a train_stages call has run its last stage
\* and on every transient-error retry, and neither between the stages of a
\* call nor on the restart of a round from stage 0; when stage i+1 starts
\* after stage i in the same call, the cache holds entries the node wrote
\* during stage i.
CachePurgedAfterLastStageAndRetry ==
    /\ [](\A n \in Nodes :
             (proc[n].pc = "ts_data" /\ proc[n].stage_num > CallStartStage(n)) =>
                 CacheOfStageBefore(n) # EmptyDict)
    /\ [][\A n \in Nodes :
             /\ proc'[n].round_cache # proc[n].round_cache =>
                   PutsStageOutput(n) \/ LastStageOver(n) \/ RaisesTransient(n)
             /\ (LastStageOver(n) \/ RaisesTransient(n)) => proc'[n].round_cache = NoCache
             /\ StageCompletes(n) => proc'[n].round_cache = proc[n].round_cache
             /\ (Raises(n) /\ ~RaisesTransient(n)) =>
                   proc'[n].round_cache = proc[n].round_cache]_vars

\* A follower that restarted a round from stage 0 is at the stage it had
\* joined at, with the outputs of the run that failed still in its cache.
CacheKeptOverRestartWitness ==
    \E n \in Nodes :
        /\ proc[n].caller = "follower_retry"
        /\ proc[n].pc = "ts_data"
        /\ proc[n].stage_num = proc[n].join_stage
        /\ proc[n].stage_num > 0
        /\ CacheOfStageBefore(n) # EmptyDict
        /\ proc[n].round_cache[<<proc[n].round_num, proc[n].stage_num>>] # EmptyDict

(***************************************************************************)
(* Properties of the order of the writes of a step and a stage.            *)
(***************************************************************************)
\* Node n has read the pointer, joined the round at a stage > 0 and polled
\* the reward record of the stage before.
FollowerPolledAtJoinStage(n) ==
    /\ proc[n].caller = "follower"
    /\ proc[n].pc = "ts_merge"
    /\ proc[n].stage_num = proc[n].join_stage
    /\ proc[n].stage_num > 0

\* C28: whenever the pointer is (r, i) with i > 0, the reward record of
\* (r, i - 1) holds the entry of the coordinator that published it; a
\* follower that read (r, i) and polled the reward record of stage i - 1
\* found it non-empty, the coordinator's entry in it.
RewardsOfStageBeforePointerPresent ==
    /\ dht_pointer # None =>
          LET r == TheValue(dht_pointer)[1]
              i == TheValue(dht_pointer)[2]
          IN i > 0 => \E c \in Nodes : /\ is_coordinator(c)
                                       /\ DictHas(dht_rewards[<<r, i - 1>>], c)
    /\ \A n \in Nodes :
          FollowerPolledAtJoinStage(n) =>
              /\ proc[n].prev_rewards # EmptyDict
              /\ \E c \in Nodes : is_coordinator(c) /\ DictHas(proc[n].prev_rewards, c)

\* A follower joined at a stage > 0 and polled the rewards of the stage
\* before, which it has not run itself.
FollowerPolledCoordinatorRewardsWitness ==
    \E n \in Nodes :
        /\ FollowerPolledAtJoinStage(n)
        /\ ~DictHas(proc[n].prev_rewards, n)
        /\ proc[n].prev_rewards # EmptyDict

\* C29: when the reward record of (r, s) holds an entry for node n, the
\* output record of (n, r, s) holds at least one question: in each step the
\* outputs are stored before the reward is.
OutputsStoredBeforeReward ==
    /\ [](\A n \in Nodes, rs \in RS :
             DictHas(dht_rewards[rs], n) => dht_outputs[<<n, rs>>] # EmptyDict)
    /\ [][\A n \in Nodes, rs \in RS :
             StoresReward(n, rs) => dht_outputs[<<n, rs>>] # EmptyDict]_vars

\* A node is in its second step of a stage, between the store of the
\* outputs and the store of the reward.
SecondStepOutputsStoredWitness ==
    \E n \in Nodes :
        LET rs == <<proc[n].round_num, proc[n].stage_num>>
        IN /\ proc[n].pc = "cl_reward"
           /\ proc[n].step = 1
           /\ ~is_coordinator(n)
           /\ DictHas(dht_rewards[rs], n)
           /\ Len(dht_outputs[<<n, rs>>]) = 2

(***************************************************************************)
(* Properties of the memo of get_outputs.                                  *)
(***************************************************************************)
\* What a get_outputs call of node n for key k = <<node, <<r, s>>>> reads
\* when it is not answered from the memo: the cache for its own key, then
\* the store.
ReadOutputs(n, k) ==
    IF k[1] = n
    THEN IF proc[n].round_cache[k[2]] # EmptyDict
         THEN Some(hash_keys(proc[n].round_cache[k[2]]))
         ELSE IF dht_outputs[k] # EmptyDict THEN Some(hash_keys(dht_outputs[k])) ELSE None
    ELSE IF dht_outputs[k] # EmptyDict THEN Some(hash_keys(dht_outputs[k])) ELSE None

\* What get_outputs gives node n for key k: the memo when there is one.
MemoisedOutputs(n, k) ==
    IF proc[n].memo[k] # None THEN proc[n].memo[k] ELSE ReadOutputs(n, k)

\* Node n's step is a merged_prev_stage_datasets call that gets as far as
\* its get_outputs calls.
Merges(n) ==
    proc[n].pc = "ts_merge" /\ hist'.last_merge[n] # None /\ proc'[n].pc # "ts_merge"

ReadsRoundZeroFirst(n) ==
    /\ proc[n].pc = "start"
    /\ ~is_coordinator(n)
    /\ self_get_round_and_stage(n) # None
    /\ TheValue(self_get_round_and_stage(n))[1] = 0
    /\ proc'[n] # proc[n]
    /\ ~Raises(n)

\* Node n has returned from train() without a train_stages call.
ReturnedWithoutRun(n) ==
    /\ ~is_coordinator(n)
    /\ proc[n].pc = "done"
    /\ proc[n].outcome = "returned"
    /\ proc[n].runs = 0

SweepRoundEnds(n, res) ==
    /\ proc[n].caller = "catch_up"
    /\ Len(hist'.swept[n]) = Len(hist.swept[n]) + 1
    /\ hist'.swept[n][Len(hist'.swept[n])] = <<proc[n].round_num, res>>

\* Node n's step leaves the loop of catch_up_train: train() goes on to
\* follower_train.
LeavesSweep(n) ==
    /\ proc'[n].caller # "catch_up"
    /\ proc'[n].pc = "fo_loop"
    /\ proc'[n].runs = proc[n].runs

PollRaises ==
    /\ poller_pc = "poll"
    /\ poller_pc' # "poll"
    /\ last_polled' # Some(now)

\* The poller thread has ended; nothing it owns changes any more.
PollerStaysDead ==
    poller_pc = "dead" =>
        /\ poller_pc' = "dead"
        /\ last_polled' = last_polled
        /\ cache_data' = cache_data
        /\ poll_done' = poll_done

\* A request answered while the poller is dead and the last poll is at least
\* `age` minutes old.
AnsweredDeadAtAge(age) ==
    /\ poller_pc = "dead"
    /\ health' # health
    /\ last_polled # None
    /\ now - TheValue(last_polled) >= age

\* C33 as stated: a poll_dht call that raises ends populate_cache, no poll is
\* started afterwards, and every request made 5 minutes or more after the
\* last successful poll is answered with an error.
PollerDeadUnhealthyFromFiveMinutes ==
    /\ [][PollRaises => poller_pc' = "dead"]_vars
    /\ [][PollerStaysDead]_vars
    /\ [][AnsweredDeadAtAge(StaleMinutes) => TheValue(health').status = "error"]_vars

\* C33, amended: a poll_dht call that raises ends populate_cache, no poll is
\* started afterwards, and every request made more than 5 minutes after the
\* last successful poll is answered with an error.
PollerDeadUnhealthyAfterFiveMinutes ==
    /\ [][PollRaises => poller_pc' = "dead"]_vars
    /\ [][PollerStaysDead]_vars
    /\ [][AnsweredDeadAtAge(StaleMinutes + 1) => TheValue(health').status = "error"]_vars

\* C33: the poller ended after a successful poll, and a request made more
\* than 5 minutes after that poll got an error.
PollerDeadUnhealthyWitness ==
    /\ poller_pc = "dead"
    /\ last_polled # None
    /\ poll_done = last_polled
    /\ health # None
    /\ TheValue(health).status = "error"
    /\ TheValue(health).polled = last_polled
    /\ TheValue(health).at > TheValue(last_polled) + StaleMinutes


=============================================================================
